---- MODULE Spec2Model ----
(***************************************************************************)
(* A model of the table / index / storage engine of rdbms/engine.py and    *)
(* rdbms/storage.py: typed columns, hash indexes for primary-key and       *)
(* unique columns, insert / select / update / delete on a table, the       *)
(* Database layer that persists a table's snapshot after a mutating call,  *)
(* its join of two tables, and the caller holding the dicts it was handed. *)
(***************************************************************************)
EXTENDS Integers, Sequences, FiniteSets, TLC

(***************************************************************************)
(* Bounds of the model.                                                    *)
(***************************************************************************)
\* most live rows a table holds: insert is not offered beyond it
MaxRows == 2
\* largest next_id at which insert is still offered
MaxNextId == 3
\* most calls of Database methods (and restarts) in one run
MaxCalls == 5

(***************************************************************************)
(* Python values.  A value is a record with a type tag: None, an int, a    *)
(* str, a bool or a float (floats of the model are whole numbers).         *)
(***************************************************************************)
None == [t |-> "none", i |-> 0, s |-> ""]
IntV(n) == [t |-> "int", i |-> n, s |-> ""]
StrV(x) == [t |-> "str", i |-> 0, s |-> x]
BoolV(b) == [t |-> "bool", i |-> IF b THEN 1 ELSE 0, s |-> ""]
FloatV(n) == [t |-> "float", i |-> n, s |-> ""]

IsNumber(v) == v.t \in {"int", "bool", "float"}

\* Python's ==: numbers of different types compare by value (True == 1 ==
\* 1.0), everything else by type and content.
PyEq(a, b) == IF IsNumber(a) /\ IsNumber(b) THEN a.i = b.i ELSE a = b

\* Python's x in [..]: equality with some element.
PyIn(v, list) == \E k \in 1..Len(list) : PyEq(v, list[k])

\* The decimal numerals int() and float() read: a string outside this
\* table is no numeral.
Numerals == <<"-1", "0", "1", "2", "3">>
IsNumeral(x) == \E k \in 1..Len(Numerals) : Numerals[k] = x
NumeralValue(x) == (CHOOSE k \in 1..Len(Numerals) : Numerals[k] = x) - 2

\* int(value) succeeds
IntParses(v) == \/ IsNumber(v)
                \/ v.t = "str" /\ IsNumeral(v.s)
\* int(value)
PyInt(v) == IF v.t = "str" THEN NumeralValue(v.s) ELSE v.i

(***************************************************************************)
(* DataType.  DATETIME, whose conversion reads the clock, is used by no    *)
(* table of the model and is left out.                                     *)
(***************************************************************************)
DataType_INTEGER == "INTEGER"
DataType_TEXT == "TEXT"
DataType_FLOAT == "FLOAT"
DataType_BOOLEAN == "BOOLEAN"

validate(value, data_type) ==
    IF value = None THEN TRUE
    ELSE IF data_type = DataType_INTEGER THEN IntParses(value)
    ELSE IF data_type = DataType_TEXT THEN value.t = "str"
    ELSE IF data_type = DataType_FLOAT THEN IntParses(value)
    ELSE IF data_type = DataType_BOOLEAN
         THEN value.t = "bool"
              \/ PyIn(value, <<IntV(0), IntV(1), StrV("true"), StrV("false")>>)
    ELSE FALSE

\* a variant that stores the value as it was given
ConvertAsGiven(value, data_type) == value

convert(value, data_type) ==
    IF value = None THEN None
    ELSE IF data_type = DataType_INTEGER THEN IntV(PyInt(value))
    ELSE IF data_type = DataType_TEXT THEN value
    ELSE IF data_type = DataType_FLOAT THEN FloatV(PyInt(value))
    ELSE IF data_type = DataType_BOOLEAN
         THEN IF value.t = "bool" THEN value
              ELSE BoolV(PyIn(value, <<IntV(1), StrV("true"), StrV("True")>>))
    ELSE value

(***************************************************************************)
(* Column                                                                  *)
(***************************************************************************)
Column(name, data_type, nullable, primary_key, unique, auto_increment) ==
    [name |-> name, data_type |-> data_type, nullable |-> nullable,
     primary_key |-> primary_key, unique |-> unique,
     auto_increment |-> auto_increment]

(***************************************************************************)
(* A Python dict in insertion order: a sequence of <<key, value>> pairs    *)
(* with distinct keys.                                                     *)
(***************************************************************************)
SeqToSet(q) == {q[k] : k \in 1..Len(q)}

DictHas(d, k) == \E j \in 1..Len(d) : d[j][1] = k
\* d.get(k)
DictGet(d, k) ==
    IF DictHas(d, k) THEN d[CHOOSE j \in 1..Len(d) : d[j][1] = k][2] ELSE None

(***************************************************************************)
(* Index: index_map, a dict from a value to the list of row ids.           *)
(***************************************************************************)
EmptyIndex == [v \in {} |-> <<>>]

IndexAdd(index_map, value, row_id) ==
    [v \in DOMAIN index_map \cup {value} |->
        IF v = value
        THEN IF value \in DOMAIN index_map
             THEN Append(index_map[value], row_id) ELSE <<row_id>>
        ELSE index_map[v]]

\* list.remove(x): the list without its first x
ListRemove(list, x) ==
    LET k == CHOOSE j \in 1..Len(list) :
                 list[j] = x /\ \A h \in 1..(j - 1) : list[h] # x
    IN  SubSeq(list, 1, k - 1) \o SubSeq(list, k + 1, Len(list))

\* a variant that leaves the index as it is
IndexRemoveNothing(index_map, value, row_id) == index_map

IndexRemove(index_map, value, row_id) ==
    IF value \in DOMAIN index_map
       /\ \E j \in 1..Len(index_map[value]) : index_map[value][j] = row_id
    THEN [index_map EXCEPT ![value] = ListRemove(@, row_id)]
    ELSE index_map

IndexLookup(index_map, value) ==
    IF value \in DOMAIN index_map THEN index_map[value] ELSE <<>>

(***************************************************************************)
(* Table.  A row is a dict: "_id" and one key per column.                  *)
(***************************************************************************)
\* row.get(key)
RowGet(row, key) == IF key \in DOMAIN row THEN row[key] ELSE None
\* row[key] = value
RowSet(row, key, value) ==
    [x \in DOMAIN row \cup {key} |-> IF x = key THEN value ELSE row[x]]

ColumnNames(columns) == {columns[k].name : k \in 1..Len(columns)}
ColumnOf(columns, col_name) ==
    columns[CHOOSE k \in 1..Len(columns) : columns[k].name = col_name]
IndexedColumns(columns) ==
    {columns[k].name : k \in {j \in 1..Len(columns) :
                                columns[j].primary_key \/ columns[j].unique}}

\* Table.__init__
NewTable(name, columns) ==
    [name |-> name, columns |-> columns, rows |-> <<>>, next_id |-> 1,
     indexes |-> [c \in IndexedColumns(columns) |-> EmptyIndex]]

\* the exceptions a Table raises: the class and the message's fixed text
NoError == [exc |-> "", msg |-> "", col |-> ""]
ErrNull(col_name) ==
    [exc |-> "ValueError", msg |-> "cannot be NULL", col |-> col_name]
ErrType(col_name) ==
    [exc |-> "ValueError", msg |-> "Invalid type for column", col |-> col_name]
ErrDuplicate(col_name) ==
    [exc |-> "ValueError", msg |-> "Duplicate value for unique column",
     col |-> col_name]

RECURSIVE MaxFrom(_, _, _, _)
MaxFrom(rows, col_name, k, max_val) ==
    IF k > Len(rows) THEN max_val
    ELSE MaxFrom(rows, col_name, k + 1,
                 IF RowGet(rows[k], col_name) # None
                    /\ rows[k][col_name].i > max_val
                 THEN rows[k][col_name].i ELSE max_val)

\* a variant that hands out the internal id counter
NextAutoFromNextId(table, col_name) == table.next_id

\* a variant that counts the rows
NextAutoFromRowCount(table, col_name) == Len(table.rows) + 1

get_next_auto_increment(table, col_name) ==
    MaxFrom(table.rows, col_name, 1, 0) + 1

\* where.items() all equal the row's values
Matches(row, where) ==
    \A j \in 1..Len(where) : PyEq(RowGet(row, where[j][1]), where[j][2])

\* a variant that looks the given value up in the index before it is
\* validated and converted
RECURSIVE InsertColumnsLookupFirst(_, _, _, _)
InsertColumnsLookupFirst(table, data, k, row) ==
    IF k > Len(table.columns) THEN [err |-> NoError, row |-> row]
    ELSE
      LET col == table.columns[k]
          given == IF col.auto_increment
                   THEN IntV(get_next_auto_increment(table, col.name))
                   ELSE DictGet(data, col.name)
      IN  IF given = None /\ ~col.nullable /\ ~col.auto_increment
          THEN [err |-> ErrNull(col.name), row |-> row]
          ELSE IF (col.unique \/ col.primary_key)
                  /\ col.name \in DOMAIN table.indexes
                  /\ IndexLookup(table.indexes[col.name], given) # <<>>
          THEN [err |-> ErrDuplicate(col.name), row |-> row]
          ELSE IF given # None /\ ~validate(given, col.data_type)
          THEN [err |-> ErrType(col.name), row |-> row]
          ELSE InsertColumnsLookupFirst(table, data, k + 1,
                   RowSet(row, col.name, convert(given, col.data_type)))

\* the loop of Table.insert over the columns, from column k on, with the row
\* built so far: the finished row, or the first error
RECURSIVE InsertColumns(_, _, _, _)
InsertColumns(table, data, k, row) ==
    IF k > Len(table.columns) THEN [err |-> NoError, row |-> row]
    ELSE
      LET col == table.columns[k]
          given == IF col.auto_increment
                   THEN IntV(get_next_auto_increment(table, col.name))
                   ELSE DictGet(data, col.name)
      IN  IF given = None /\ ~col.nullable /\ ~col.auto_increment
          THEN [err |-> ErrNull(col.name), row |-> row]
          ELSE IF given # None /\ ~validate(given, col.data_type)
          THEN [err |-> ErrType(col.name), row |-> row]
          ELSE
            LET value == convert(given, col.data_type)
            IN  IF (col.unique \/ col.primary_key)
                   /\ col.name \in DOMAIN table.indexes
                   /\ IndexLookup(table.indexes[col.name], value) # <<>>
                THEN [err |-> ErrDuplicate(col.name), row |-> row]
                ELSE InsertColumns(table, data, k + 1,
                                   RowSet(row, col.name, value))

\* a variant that derives the counter from the number of rows
NextIdFromRowCount(table) == Len(table.rows) + 2

\* next_id after a successful insert
NextIdAfterInsert(table) == table.next_id + 1

\* the indexes after a successful insert of row
IndexesAfterInsert(table, row) ==
    [c \in DOMAIN table.indexes |->
        IF c \in DOMAIN row
        THEN IndexAdd(table.indexes[c], row[c], table.next_id)
        ELSE table.indexes[c]]

\* a variant that indexes each column as soon as it passes its checks, so
\* that a later column's failure leaves the earlier entries behind
TableInsertIndexingEarly(table, data) ==
    LET built == InsertColumns(table, data, 1,
                               [x \in {"_id"} |-> IntV(table.next_id)])
    IN  IF built.err # NoError
        THEN [err |-> built.err,
              table |-> [table EXCEPT
                  !.indexes = IndexesAfterInsert(table, built.row)]]
        ELSE [err |-> NoError,
              table |-> [table EXCEPT
                  !.indexes = IndexesAfterInsert(table, built.row),
                  !.rows = Append(table.rows, built.row),
                  !.next_id = NextIdAfterInsert(table)]]

\* Table.insert: the error raised (NoError when it returns) and the table
\* afterwards
TableInsert(table, data) ==
    LET built == InsertColumns(table, data, 1,
                               [x \in {"_id"} |-> IntV(table.next_id)])
    IN  IF built.err # NoError
        THEN [err |-> built.err, table |-> table]
        ELSE [err |-> NoError,
              table |-> [table EXCEPT
                  !.indexes = IndexesAfterInsert(table, built.row),
                  !.rows = Append(table.rows, built.row),
                  !.next_id = NextIdAfterInsert(table)]]

\* every index without the row's entry (the row's id under its value)
IndexesWithout(indexes, row) ==
    [c \in DOMAIN indexes |->
        IF c \in DOMAIN row
        THEN IndexRemove(indexes[c], row[c], row["_id"].i)
        ELSE indexes[c]]

\* every index with the row's entry added
IndexesWith(indexes, row) ==
    [c \in DOMAIN indexes |->
        IF c \in DOMAIN row
        THEN IndexAdd(indexes[c], row[c], row["_id"].i)
        ELSE indexes[c]]

\* a variant that writes the keys that are no columns as well
RECURSIVE ApplyDataEveryKey(_, _, _, _)
ApplyDataEveryKey(columns, data, j, row) ==
    IF j > Len(data) THEN [err |-> NoError, row |-> row]
    ELSE
      LET col_name == data[j][1]
          given == data[j][2]
      IN  IF col_name \notin ColumnNames(columns)
          THEN ApplyDataEveryKey(columns, data, j + 1,
                                 RowSet(row, col_name, given))
          ELSE
            LET col == ColumnOf(columns, col_name)
            IN  IF given # None /\ ~validate(given, col.data_type)
                THEN [err |-> ErrType(col_name), row |-> row]
                ELSE ApplyDataEveryKey(columns, data, j + 1,
                                       RowSet(row, col_name,
                                              convert(given, col.data_type)))

\* the loop of Table.update over data.items(), from item j on, writing into
\* the live row: the row as it is when the loop ends or raises
RECURSIVE ApplyData(_, _, _, _)
ApplyData(columns, data, j, row) ==
    IF j > Len(data) THEN [err |-> NoError, row |-> row]
    ELSE
      LET col_name == data[j][1]
          given == data[j][2]
      IN  IF col_name \notin ColumnNames(columns)
          THEN ApplyData(columns, data, j + 1, row)
          ELSE
            LET col == ColumnOf(columns, col_name)
            IN  IF given # None /\ ~validate(given, col.data_type)
                THEN [err |-> ErrType(col_name), row |-> row]
                ELSE ApplyData(columns, data, j + 1,
                               RowSet(row, col_name,
                                      convert(given, col.data_type)))

\* the loop of Table.update over the rows, from row k on
RECURSIVE UpdateRows(_, _, _, _, _)
UpdateRows(table, data, where, k, updated_count) ==
    IF k > Len(table.rows)
    THEN [err |-> NoError, table |-> table, count |-> updated_count]
    ELSE IF ~Matches(table.rows[k], where)
    THEN UpdateRows(table, data, where, k + 1, updated_count)
    ELSE
      LET removed == IndexesWithout(table.indexes, table.rows[k])
          applied == ApplyData(table.columns, data, 1, table.rows[k])
      IN  IF applied.err # NoError
          THEN [err |-> applied.err,
                table |-> [table EXCEPT !.indexes = removed,
                                        !.rows[k] = applied.row],
                count |-> updated_count]
          ELSE UpdateRows(
                 [table EXCEPT !.indexes = IndexesWith(removed, applied.row),
                               !.rows[k] = applied.row],
                 data, where, k + 1, updated_count + 1)

\* a variant that takes every row for a match
TableUpdateEveryRow(table, data, where) == UpdateRows(table, data, <<>>, 1, 0)

\* Table.update: the error raised (NoError when it returns), the count
\* returned and the table afterwards
TableUpdate(table, data, where) == UpdateRows(table, data, where, 1, 0)

\* the rows that stay, in order
RECURSIVE KeepRows(_, _, _)
KeepRows(rows, where, k) ==
    IF k > Len(rows) THEN <<>>
    ELSE IF Matches(rows[k], where) THEN KeepRows(rows, where, k + 1)
    ELSE <<rows[k]>> \o KeepRows(rows, where, k + 1)

\* the loop of Table.delete over the rows, from row k on: the indexes
RECURSIVE DeleteFromIndexes(_, _, _, _)
DeleteFromIndexes(indexes, rows, where, k) ==
    IF k > Len(rows) THEN indexes
    ELSE DeleteFromIndexes(
           IF Matches(rows[k], where)
           THEN IndexesWithout(indexes, rows[k]) ELSE indexes,
           rows, where, k + 1)

\* a variant that removes the rows and leaves the indexes as they are
TableDeleteRowsOnly(table, where) ==
    LET kept == KeepRows(table.rows, where, 1)
    IN  [err |-> NoError,
         table |-> [table EXCEPT !.rows = kept],
         count |-> Len(table.rows) - Len(kept)]

\* Table.delete: the count returned and the table afterwards
TableDelete(table, where) ==
    LET kept == KeepRows(table.rows, where, 1)
    IN  [err |-> NoError,
         table |-> [table EXCEPT
             !.indexes = DeleteFromIndexes(table.indexes, table.rows, where, 1),
             !.rows = kept],
         count |-> Len(table.rows) - Len(kept)]

\* a variant that takes a row when any pair of where holds
RECURSIVE SelectRowsAnyPair(_, _, _)
SelectRowsAnyPair(rows, where, k) ==
    IF k > Len(rows) THEN <<>>
    ELSE IF where # <<>>
            /\ ~\E j \in 1..Len(where) :
                   PyEq(RowGet(rows[k], where[j][1]), where[j][2])
    THEN SelectRowsAnyPair(rows, where, k + 1)
    ELSE <<rows[k]>> \o SelectRowsAnyPair(rows, where, k + 1)

\* the loop of Table.select over the rows, from row k on, without columns,
\* order_by or limit: a copy of every matching row, in storage order
RECURSIVE SelectRows(_, _, _)
SelectRows(rows, where, k) ==
    IF k > Len(rows) THEN <<>>
    ELSE IF where # <<>> /\ ~Matches(rows[k], where)
    THEN SelectRows(rows, where, k + 1)
    ELSE <<rows[k]>> \o SelectRows(rows, where, k + 1)

\* A dict object a call hands to its caller: ref is 0 for a dict of its own
\* and the internal id of the live row for that row's very dict object.
OwnDict(row) == [ref |-> 0, row |-> row]
SameDict(row) == [ref |-> row["_id"].i, row |-> row]

\* the refs of the dicts of a result
Refs(result) == [k \in 1..Len(result) |-> result[k].ref]
\* the contents of the dicts of a result
Contents(result) == [k \in 1..Len(result) |-> result[k].row]

\* what Table.insert returns: row, the dict it has appended to self.rows
InsertResult(row) == SameDict(row)

\* a variant that hands the stored row's own dict to the caller
ResultRowShared(row, columns) == SameDict(row)

\* the result_row of Table.select: with columns a new dict of the columns
\* the row has, plus _id; without columns (None or []) row.copy()
ResultRow(row, columns) ==
    IF columns # <<>>
    THEN OwnDict([x \in (SeqToSet(columns) \cap DOMAIN row) \cup {"_id"} |->
                     row[x]])
    ELSE OwnDict(row)

\* A str is written as the sequence of its pieces, a leading "-" being a
\* piece of its own; None and '' are both <<>>.
StartsWithMinus(order_by) == Len(order_by) >= 1 /\ order_by[1] = "-"
\* order_by[1:] of a str that starts with "-"
AfterMinus(order_by) == IF Len(order_by) >= 2 THEN order_by[2] ELSE ""

\* Python's order of the strs of the model
Strings == <<"", "1", "a">>
StrRank(x) == CHOOSE k \in 1..Len(Strings) : Strings[k] = x

\* a < b is defined: between two numbers and between two strs
Comparable(a, b) ==
    \/ IsNumber(a) /\ IsNumber(b)
    \/ a.t = "str" /\ b.t = "str"
\* a < b
PyLess(a, b) ==
    IF a.t = "str" THEN StrRank(a.s) < StrRank(b.s) ELSE a.i < b.i

\* the sort key: x.get(order_by, '')
SortKey(x, col_name) ==
    IF col_name \in DOMAIN x.row THEN x.row[col_name] ELSE StrV("")

TypeErrorCompare(col_name) ==
    [exc |-> "TypeError", msg |-> "'<' not supported", col |-> col_name]

\* list.sort compares at least every two neighbours of a list of up to
\* three items, and raises TypeError at the first pair that has no order
SortRaises(results, col_name) ==
    \E k \in 1..(Len(results) - 1) :
        ~Comparable(SortKey(results[k], col_name),
                    SortKey(results[k + 1], col_name))

\* x goes before e in the sorted list: for reverse the larger key first
GoesBefore(x, e, col_name, reverse) ==
    IF reverse THEN PyLess(SortKey(e, col_name), SortKey(x, col_name))
    ELSE PyLess(SortKey(x, col_name), SortKey(e, col_name))

\* sorted with x put in: before the first item x goes before, so that items
\* of equal keys keep their order
InsertSorted(sorted, x, col_name, reverse) ==
    LET first == {k \in 1..Len(sorted) :
                     GoesBefore(x, sorted[k], col_name, reverse)}
        at == IF first = {} THEN Len(sorted) + 1
              ELSE CHOOSE k \in first : \A h \in first : k <= h
    IN  SubSeq(sorted, 1, at - 1) \o <<x>> \o SubSeq(sorted, at, Len(sorted))

\* results.sort(key=..., reverse=reverse) of comparable keys: the items
\* from k on put into sorted one by one
RECURSIVE SortFrom(_, _, _, _, _)
SortFrom(results, k, sorted, col_name, reverse) ==
    IF k > Len(results) THEN sorted
    ELSE SortFrom(results, k + 1,
                  InsertSorted(sorted, results[k], col_name, reverse),
                  col_name, reverse)

\* results[:limit]
Slice(results, limit) ==
    IF limit >= 0
    THEN SubSeq(results, 1, IF limit < Len(results) THEN limit ELSE Len(results))
    ELSE SubSeq(results, 1, Len(results) + limit)

\* Table.select: the error raised (NoError when it returns) and the list
\* returned.  columns is a list of names (None and [] are <<>>), limit is
\* None or an int.
TableSelect(table, columns, where, order_by, limit) ==
    LET matched == SelectRows(table.rows, where, 1)
        results == [k \in 1..Len(matched) |-> ResultRow(matched[k], columns)]
        reverse == StartsWithMinus(order_by)
        col_name == IF reverse THEN AfterMinus(order_by) ELSE order_by[1]
    IN  IF order_by # <<>> /\ SortRaises(results, col_name)
        THEN [err |-> TypeErrorCompare(col_name), result |-> <<>>]
        ELSE LET sorted == IF order_by # <<>>
                           THEN SortFrom(results, 1, <<>>, col_name, reverse)
                           ELSE results
             IN  [err |-> NoError,
                  result |-> IF limit # None /\ limit.i # 0
                             THEN Slice(sorted, limit.i) ELSE sorted]

\* Table.to_dict
to_dict(table) ==
    [name |-> table.name, columns |-> table.columns, rows |-> table.rows,
     next_id |-> table.next_id]

\* the loop of Table.from_dict that rebuilds the indexes, from row k on
RECURSIVE RebuildIndexes(_, _, _)
RebuildIndexes(indexes, rows, k) ==
    IF k > Len(rows) THEN indexes
    ELSE RebuildIndexes(IndexesWith(indexes, rows[k]), rows, k + 1)

\* a variant that starts the counter of internal ids again
FromDictCountingAnew(data) ==
    LET table == NewTable(data.name, data.columns)
    IN  [table EXCEPT
            !.rows = data.rows,
            !.indexes = RebuildIndexes(table.indexes, data.rows, 1)]

\* Table.from_dict
from_dict(data) ==
    LET table == NewTable(data.name, data.columns)
    IN  [table EXCEPT
            !.rows = data.rows,
            !.next_id = data.next_id,
            !.indexes = RebuildIndexes(table.indexes, data.rows, 1)]

(***************************************************************************)
(* StorageManager: one JSON file per table name.  A file holds the JSON    *)
(* text json.dump writes for a snapshot: the literal null, true or false,  *)
(* a number written without or with a fraction, or a string.               *)
(***************************************************************************)
\* the JSON literal json.dump writes for a value
JsonOf(v) ==
    [json |-> CASE v.t = "none" -> "null"
                [] v.t = "bool" -> IF v.i = 1 THEN "true" ELSE "false"
                [] v.t = "int" -> "integer"
                [] v.t = "float" -> "fraction"
                [] OTHER -> "string",
     i |-> IF v.t \in {"int", "float"} THEN v.i ELSE 0,
     s |-> v.s]

\* the value json.load reads from a JSON literal
PyOf(j) ==
    CASE j.json = "null" -> None
      [] j.json = "true" -> BoolV(TRUE)
      [] j.json = "false" -> BoolV(FALSE)
      [] j.json = "integer" -> IntV(j.i)
      [] j.json = "fraction" -> FloatV(j.i)
      [] OTHER -> StrV(j.s)

\* json.dump of a snapshot: the text of its file
json_dump(table_data) ==
    [table_data EXCEPT !.rows =
        [k \in 1..Len(@) |-> [f \in DOMAIN @[k] |-> JsonOf(@[k][f])]]]

\* json.load of the text of a file
json_load(text) ==
    [text EXCEPT !.rows =
        [k \in 1..Len(@) |-> [f \in DOMAIN @[k] |-> PyOf(@[k][f])]]]

\* a save_table that leaves an existing file as it is
SaveTableIfAbsent(files, table_name, table_data) ==
    [n \in DOMAIN files \cup {table_name} |->
        IF n \in DOMAIN files THEN files[n] ELSE json_dump(table_data)]

save_table(files, table_name, table_data) ==
    [n \in DOMAIN files \cup {table_name} |->
        IF n = table_name THEN json_dump(table_data) ELSE files[n]]

ErrNotFound(table_name) ==
    [exc |-> "FileNotFoundError", msg |-> "not found", col |-> table_name]

\* StorageManager.load_table: the error raised (NoError when it returns)
\* and the snapshot returned
load_table(files, table_name) ==
    IF table_name \notin DOMAIN files
    THEN [err |-> ErrNotFound(table_name), data |-> None]
    ELSE [err |-> NoError, data |-> json_load(files[table_name])]

delete_table(files, table_name) ==
    [n \in DOMAIN files \ {table_name} |-> files[n]]

load_all_tables(files) == [n \in DOMAIN files |-> json_load(files[n])]

(***************************************************************************)
(* Database                                                                *)
(***************************************************************************)
VARIABLES
    tables,     \* Database.tables: table name -> Table
    storage,    \* the files of the StorageManager: table name -> JSON text
    last,       \* the last call: its name, table, error raised and count
    calls,      \* the number of calls made so far
    returned    \* the dicts the last call handed to its caller, as refs

vars == <<tables, storage, last, calls, returned>>

ErrExists(name) ==
    [exc |-> "ValueError", msg |-> "already exists", col |-> name]
ErrMissing(name) ==
    [exc |-> "ValueError", msg |-> "does not exist", col |-> name]

Call(op, name, err, count) ==
    [op |-> op, name |-> name, err |-> err, count |-> count]

\* Database.get_table
get_table(tbls, name) ==
    IF name \notin DOMAIN tbls THEN ErrMissing(name) ELSE NoError

\* a merged dict that leaves the rows' internal ids out
MergedColumnsOnly(left_table, left_row, right_table, right_row) ==
    OwnDict([key \in {<<left_table, k>> : k \in DOMAIN left_row \ {"_id"}}
                     \cup {<<right_table, k>> : k \in DOMAIN right_row \ {"_id"}} |->
                IF key[1] = right_table /\ key[2] \in DOMAIN right_row
                THEN right_row[key[2]] ELSE left_row[key[2]]])

\* the merged dict of Database.join: the keys "<table>.<k>" are written as
\* the pairs <<table, k>>; the right row's items are stored last
Merged(left_table, left_row, right_table, right_row) ==
    OwnDict([key \in {<<left_table, k>> : k \in DOMAIN left_row}
                     \cup {<<right_table, k>> : k \in DOMAIN right_row} |->
                IF key[1] = right_table /\ key[2] \in DOMAIN right_row
                THEN right_row[key[2]] ELSE left_row[key[2]]])

\* nested loops with the right table's rows in the outer loop
RECURSIVE JoinFromRightMajor(_, _, _, _, _)
JoinFromRightMajor(left, right, on_left, on_right, p) ==
    IF p > Len(left.rows) * Len(right.rows) THEN <<>>
    ELSE LET right_row == right.rows[((p - 1) \div Len(left.rows)) + 1]
             left_row == left.rows[((p - 1) % Len(left.rows)) + 1]
             rest == JoinFromRightMajor(left, right, on_left, on_right, p + 1)
         IN  IF PyEq(RowGet(left_row, on_left), RowGet(right_row, on_right))
             THEN <<Merged(left.name, left_row, right.name, right_row)>>
                      \o rest
             ELSE rest

\* the nested loops of Database.join, from the p-th pair of a left and a
\* right row on, in the loops' order
RECURSIVE JoinFrom(_, _, _, _, _)
JoinFrom(left, right, on_left, on_right, p) ==
    IF p > Len(left.rows) * Len(right.rows) THEN <<>>
    ELSE LET left_row == left.rows[((p - 1) \div Len(right.rows)) + 1]
             right_row == right.rows[((p - 1) % Len(right.rows)) + 1]
             rest == JoinFrom(left, right, on_left, on_right, p + 1)
         IN  IF PyEq(RowGet(left_row, on_left), RowGet(right_row, on_right))
             THEN <<Merged(left.name, left_row, right.name, right_row)>>
                      \o rest
             ELSE rest

\* Database.join: the error raised (NoError when it returns) and the list
\* returned
DatabaseJoin(tbls, left_table, right_table, on_left, on_right, join_type) ==
    IF get_table(tbls, left_table) # NoError
    THEN [err |-> get_table(tbls, left_table), result |-> <<>>]
    ELSE IF get_table(tbls, right_table) # NoError
    THEN [err |-> get_table(tbls, right_table), result |-> <<>>]
    ELSE [err |-> NoError,
          result |-> IF join_type = "INNER"
                     THEN JoinFrom(tbls[left_table], tbls[right_table],
                                   on_left, on_right, 1)
                     ELSE <<>>]

\* Database._load_tables
LoadTables(files) ==
    [n \in DOMAIN load_all_tables(files) |-> from_dict(load_all_tables(files)[n])]

\* Database._save_table
SaveTable(tbls, files, table_name) ==
    IF table_name \in DOMAIN tbls
    THEN save_table(files, table_name, to_dict(tbls[table_name]))
    ELSE files

(***************************************************************************)
(* The callers' inputs.                                                    *)
(***************************************************************************)
TableNames == {"products"}

\* the table of test.py (without its price column) and one with two
\* unique columns, the first of them nullable
Schemas ==
    { << Column("id", DataType_INTEGER, TRUE, TRUE, FALSE, TRUE),
         Column("name", DataType_TEXT, FALSE, FALSE, FALSE, FALSE) >>,
      << Column("id", DataType_INTEGER, TRUE, FALSE, TRUE, FALSE),
         Column("name", DataType_TEXT, FALSE, FALSE, FALSE, FALSE) >> }

DataKeys == {"id", "name"}
\* the values a caller gives for a key: for each column None, a value of
\* its type, a value that converts to its type or is not of it
DataValues(k) ==
    IF k = "id" THEN {None, IntV(-1), StrV("1"), StrV("a")}
    ELSE {None, StrV("a"), IntV(-1)}
Items == {<<k, v>> : k \in DataKeys, v \in {None, IntV(-1), StrV("1"), StrV("a")}}
\* the dicts of at most two items, with distinct keys
DataDicts ==
    {<<>>}
    \cup {<<x>> : x \in {y \in Items : y[2] \in DataValues(y[1])}}
    \cup {<<x, y>> : x \in {z \in Items : z[1] = "id" /\ z[2] \in DataValues("id")},
                     y \in {z \in Items : z[1] = "name" /\ z[2] \in DataValues("name")}}
    \cup {<<y, x>> : x \in {z \in Items : z[1] = "id" /\ z[2] \in DataValues("id")},
                     y \in {z \in Items : z[1] = "name" /\ z[2] \in DataValues("name")}}

WhereDicts ==
    {<<>>}
    \cup {<< <<"_id", IntV(1)>> >>, << <<"_id", IntV(2)>> >>,
          << <<"name", StrV("a")>> >>}

\* the arguments of select: a projection, an order and a limit
ColumnLists == {<<>>, <<"name">>}
OrderBys == {<<>>, <<"id">>, <<"-", "id">>, <<"name">>, <<"-", "name">>}
Limits == {None, IntV(0), IntV(1)}

\* the arguments of join: the right table may be one never created
JoinNames == TableNames \cup {"orders"}
JoinColumns == {"id", "_id"}
JoinTypes == {"INNER", "LEFT"}

\* what a caller does to a dict it was handed: it sets or removes a field
Changes ==
    {[kind |-> "set", key |-> "name", value |-> None],
     [kind |-> "set", key |-> "name", value |-> StrV("a")],
     [kind |-> "del", key |-> "name", value |-> None]}

Init ==
    /\ storage = [n \in {} |-> <<>>]
    /\ tables = LoadTables(storage)
    /\ last = Call("init", "", NoError, 0)
    /\ calls = 0
    /\ returned = <<>>

\* one more call, while the run may still make one
Counted == calls < MaxCalls /\ calls' = calls + 1

\* a variant that puts a new table in the place of one that exists
CreateTableReplacing(name, columns) ==
    /\ Counted
    /\ LET created == [n \in DOMAIN tables \cup {name} |->
                          IF n = name THEN NewTable(name, columns)
                          ELSE tables[n]]
       IN  /\ tables' = created
           /\ storage' = SaveTable(created, storage, name)
           /\ last' = Call("create_table", name, NoError, 0)
           /\ returned' = <<>>

\* Database.create_table
CreateTable(name, columns) ==
    /\ Counted
    /\ IF name \in DOMAIN tables
       THEN /\ last' = Call("create_table", name, ErrExists(name), 0)
            /\ returned' = <<>>
            /\ UNCHANGED <<tables, storage>>
       ELSE LET created == [n \in DOMAIN tables \cup {name} |->
                               IF n = name THEN NewTable(name, columns)
                               ELSE tables[n]]
            IN  /\ tables' = created
                /\ storage' = SaveTable(created, storage, name)
                /\ last' = Call("create_table", name, NoError, 0)
                /\ returned' = <<>>

\* Database.drop_table
DropTable(name) ==
    /\ Counted
    /\ IF name \notin DOMAIN tables
       THEN /\ last' = Call("drop_table", name, ErrMissing(name), 0)
            /\ returned' = <<>>
            /\ UNCHANGED <<tables, storage>>
       ELSE /\ tables' = [n \in DOMAIN tables \ {name} |-> tables[n]]
            /\ storage' = delete_table(storage, name)
            /\ last' = Call("drop_table", name, NoError, 0)
            /\ returned' = <<>>

\* a call of table.insert / update / delete made by the Database method op,
\* with its outcome res: the table is as the call left it, and the snapshot
\* is saved when the call returned
Delegate(op, name, res) ==
    LET after == [tables EXCEPT ![name] = res.table]
    IN  /\ tables' = after
        /\ storage' = IF res.err = NoError
                      THEN SaveTable(after, storage, name) ELSE storage
        /\ last' = Call(op, name, res.err,
                        IF op = "insert" THEN 0 ELSE res.count)
        /\ returned' = IF op = "insert" /\ res.err = NoError
                       THEN Refs(<<InsertResult(
                                res.table.rows[Len(res.table.rows)])>>)
                       ELSE <<>>

Missing(op, name) ==
    /\ last' = Call(op, name, get_table(tables, name), 0)
    /\ returned' = <<>>
    /\ UNCHANGED <<tables, storage>>

\* Database.insert
Insert(name, data) ==
    /\ Counted
    /\ IF name \notin DOMAIN tables THEN Missing("insert", name)
       ELSE /\ Len(tables[name].rows) < MaxRows
            /\ tables[name].next_id <= MaxNextId
            /\ Delegate("insert", name, TableInsert(tables[name], data))

\* Database.update
Update(name, data, where) ==
    /\ Counted
    /\ IF name \notin DOMAIN tables THEN Missing("update", name)
       ELSE Delegate("update", name, TableUpdate(tables[name], data, where))

\* Database.delete
Delete(name, where) ==
    /\ Counted
    /\ IF name \notin DOMAIN tables THEN Missing("delete", name)
       ELSE Delegate("delete", name, TableDelete(tables[name], where))

\* Database.__init__ over the same storage: the process starts again
Restart ==
    /\ Counted
    /\ tables' = LoadTables(storage)
    /\ last' = Call("restart", "", NoError, 0)
    /\ returned' = <<>>
    /\ UNCHANGED storage

\* Database.get_table
GetTable(name) ==
    /\ Counted
    /\ last' = Call("get_table", name, get_table(tables, name), 0)
    /\ returned' = <<>>
    /\ UNCHANGED <<tables, storage>>

\* a variant that saves the table it has read
SelectSaving(name, columns, where, order_by, limit) ==
    /\ Counted
    /\ IF name \notin DOMAIN tables THEN Missing("select", name)
       ELSE LET res == TableSelect(tables[name], columns, where, order_by,
                                   limit)
            IN  /\ last' = Call("select", name, res.err, Len(res.result))
                /\ returned' = Refs(res.result)
                /\ storage' = SaveTable(tables, storage, name)
                /\ UNCHANGED tables

\* Database.select
Select(name, columns, where, order_by, limit) ==
    /\ Counted
    /\ IF name \notin DOMAIN tables THEN Missing("select", name)
       ELSE LET res == TableSelect(tables[name], columns, where, order_by,
                                   limit)
            IN  /\ last' = Call("select", name, res.err, Len(res.result))
                /\ returned' = Refs(res.result)
                /\ UNCHANGED <<tables, storage>>

\* Database.join
Join(left_table, right_table, on_left, on_right, join_type) ==
    /\ Counted
    /\ LET res == DatabaseJoin(tables, left_table, right_table, on_left,
                               on_right, join_type)
       IN  /\ last' = Call("join", left_table, res.err, Len(res.result))
           /\ returned' = Refs(res.result)
           /\ UNCHANGED <<tables, storage>>

\* dict[key] = value, or del dict[key]
Changed(dict, change) ==
    IF change.kind = "set" THEN RowSet(dict, change.key, change.value)
    ELSE [x \in DOMAIN dict \ {change.key} |-> dict[x]]

\* the rows when the dict object of the row with internal id ref is changed
RowsChanged(rows, ref, change) ==
    [k \in 1..Len(rows) |->
        IF rows[k]["_id"].i = ref THEN Changed(rows[k], change) ELSE rows[k]]

\* the name under which a change is recorded: by the call that returned
\* the dict
ChangeOp(op) ==
    IF op = "insert" THEN "change_inserted"
    ELSE IF op = "select" THEN "change_selected"
    ELSE "change_joined"

\* The caller changes the k-th dict the last call handed to it.  A dict of
\* its own is no part of any table; the dict of a live row is that row.
ChangeReturned(k, change) ==
    /\ Counted
    /\ k \in 1..Len(returned)
    /\ tables' = IF returned[k] = 0 THEN tables
                 ELSE [tables EXCEPT ![last.name].rows =
                          RowsChanged(@, returned[k], change)]
    /\ last' = Call(ChangeOp(last.op), last.name, NoError, 0)
    /\ returned' = <<>>
    /\ UNCHANGED storage

Next ==
    \/ \E name \in TableNames, columns \in Schemas : CreateTable(name, columns)
    \/ \E name \in TableNames : DropTable(name)
    \/ \E name \in TableNames, data \in DataDicts : Insert(name, data)
    \/ \E name \in TableNames, data \in DataDicts, where \in WhereDicts :
          Update(name, data, where)
    \/ \E name \in TableNames, where \in WhereDicts : Delete(name, where)
    \/ Restart
    \/ \E name \in TableNames : GetTable(name)
    \/ \E name \in TableNames, columns \in ColumnLists, where \in WhereDicts,
          order_by \in OrderBys, limit \in Limits :
          Select(name, columns, where, order_by, limit)
    \/ \E left_table \in TableNames, right_table \in JoinNames,
          on_left \in JoinColumns, on_right \in JoinColumns,
          join_type \in JoinTypes :
          Join(left_table, right_table, on_left, on_right, join_type)
    \/ \E k \in 1..MaxRows, change \in Changes : ChangeReturned(k, change)

Spec == Init /\ [][Next]_vars

(***************************************************************************)
(* Vocabulary of the properties.                                           *)
(***************************************************************************)
\* every value a field or an index key of the model can hold
ValueUniverse ==
    {None, StrV("a"), StrV("1")} \cup {IntV(n) : n \in -1..(MaxNextId + 1)}

\* the internal ids of the live rows whose field col_name is value
LiveIds(table, col_name, value) ==
    {table.rows[k]["_id"].i : k \in {j \in 1..Len(table.rows) :
                                       table.rows[j][col_name] = value}}

LastRow(table) == table.rows[Len(table.rows)]

Returned(op) == last.op = op /\ last.err = NoError
Raised(op) == last.op = op /\ last.err # NoError

(***************************************************************************)
(* C1: in every reachable state, for every table, every indexed column c   *)
(* and every value v, Index.lookup(v) of c's index holds exactly the ids   *)
(* of the live rows whose field c is v.                                    *)
(***************************************************************************)
C1_LookupIsLiveRows ==
    \A n \in DOMAIN tables : \A c \in DOMAIN tables[n].indexes :
        \A v \in ValueUniverse :
            SeqToSet(IndexLookup(tables[n].indexes[c], v))
                = LiveIds(tables[n], c, v)

(***************************************************************************)
(* C2: in every reachable state no two live rows hold the same value in a  *)
(* primary-key or unique column, and every bucket of every index holds at  *)
(* most one row id.                                                        *)
(***************************************************************************)
C2_UniqueColumnsAreUnique ==
    \A n \in DOMAIN tables : \A c \in DOMAIN tables[n].indexes :
        /\ \A j, k \in 1..Len(tables[n].rows) :
              j # k => tables[n].rows[j][c] # tables[n].rows[k][c]
        /\ \A v \in DOMAIN tables[n].indexes[c] :
              Len(tables[n].indexes[c][v]) <= 1

(***************************************************************************)
(* C3: a Table.update that raises leaves the table as it was before the    *)
(* call: rows, index buckets and next_id.                                  *)
(***************************************************************************)
C3_FailedUpdateChangesNothing ==
    [][(last'.op = "update" /\ last'.err # NoError) => tables' = tables]_vars

(***************************************************************************)
(* C4: Table.insert is all-or-nothing.  When it raises, the table is       *)
(* unchanged.  When it returns, one row with _id = next_id is appended at  *)
(* the end, every index returns exactly the new id for the new row's       *)
(* value and what it returned before for every other value, and next_id    *)
(* grows by one.                                                           *)
(***************************************************************************)
InsertedOneRow(before, after) ==
    LET row == LastRow(after)
    IN  /\ Len(after.rows) = Len(before.rows) + 1
        /\ after.rows = Append(before.rows, row)
        /\ row["_id"] = IntV(before.next_id)
        /\ after.next_id = before.next_id + 1
        /\ after.columns = before.columns
        /\ DOMAIN after.indexes = DOMAIN before.indexes
        /\ \A c \in DOMAIN before.indexes : \A v \in ValueUniverse :
              IndexLookup(after.indexes[c], v)
                = IF v = row[c] THEN <<before.next_id>>
                  ELSE IndexLookup(before.indexes[c], v)

C4_InsertAllOrNothing ==
    [][last'.op = "insert" =>
         IF last'.err # NoError THEN tables' = tables
         ELSE /\ DOMAIN tables' = DOMAIN tables
              /\ \A n \in DOMAIN tables :
                    IF n = last'.name
                    THEN InsertedOneRow(tables[n], tables'[n])
                    ELSE tables'[n] = tables[n]]_vars

\* an insert that raised on its second column, into a table that has a row
C4_Witness_RaisedOnSecondColumn ==
    /\ Raised("insert")
    /\ last.err.col = "name"
    /\ last.name \in DOMAIN tables
    /\ Len(tables[last.name].rows) >= 1

(***************************************************************************)
(* C5: after every mutating call, returned or raised, the table names in   *)
(* storage are those of Database.tables and every stored snapshot is the   *)
(* in-memory table's snapshot.                                             *)
(***************************************************************************)
C5_StorageAgreesWithTables ==
    /\ DOMAIN storage = DOMAIN tables
    /\ \A n \in DOMAIN tables :
          load_table(storage, n).data = to_dict(tables[n])

\* the same tables, with the same columns, rows, next_id and lookup results
SameTables(a, b) ==
    /\ DOMAIN a = DOMAIN b
    /\ \A n \in DOMAIN a :
          /\ a[n].columns = b[n].columns
          /\ a[n].rows = b[n].rows
          /\ a[n].next_id = b[n].next_id
          /\ DOMAIN a[n].indexes = DOMAIN b[n].indexes
          /\ \A c \in DOMAIN a[n].indexes : \A v \in ValueUniverse :
                IndexLookup(a[n].indexes[c], v) = IndexLookup(b[n].indexes[c], v)

(***************************************************************************)
(* C6: restart equivalence.  In every reachable state a Database           *)
(* constructed over the same storage has the same table names and, for     *)
(* each table, the same columns, rows, next_id and index lookup results    *)
(* as the Database that made the calls.                                    *)
(***************************************************************************)
C6_RestartEquivalent == SameTables(LoadTables(storage), tables)

(***************************************************************************)
(* C7: within one table's lifetime next_id never decreases, every live     *)
(* row's _id is below next_id, a successful insert assigns the old         *)
(* next_id and raises next_id above it, and no _id below the old next_id   *)
(* appears that was not live before: ids are strictly increasing and       *)
(* never assigned twice, across deletes, failed calls and restarts.        *)
(***************************************************************************)
RowIds(table) == {table.rows[k]["_id"].i : k \in 1..Len(table.rows)}

C7_IdsIncreaseNeverReused ==
    [][\A n \in DOMAIN tables \cap DOMAIN tables' :
         /\ tables'[n].next_id >= tables[n].next_id
         /\ \A id \in RowIds(tables'[n]) :
               /\ id < tables'[n].next_id
               /\ id >= tables[n].next_id \/ id \in RowIds(tables[n])
         /\ (last'.op = "insert" /\ last'.err = NoError /\ last'.name = n)
               => /\ LastRow(tables'[n])["_id"].i = tables[n].next_id
                  /\ tables[n].next_id \notin RowIds(tables[n])
                  /\ tables'[n].next_id > tables[n].next_id]_vars

\* an insert returned in a table from which an earlier row was deleted
C7_Witness_InsertAfterDelete ==
    /\ Returned("insert")
    /\ last.name \in DOMAIN tables
    /\ LET table == tables[last.name]
       IN  /\ Len(table.rows) >= 1
           /\ LastRow(table)["_id"].i = table.next_id - 1
           /\ Len(table.rows) < table.next_id - 1

(***************************************************************************)
(* C8: snapshot round trip.  For every table in a reachable state,         *)
(* from_dict(to_dict(table)) has the same rows (so the same select result  *)
(* for every filter), the same next_id and, for every stored value of      *)
(* every indexed column, the same lookup result in the same order.         *)
(***************************************************************************)
C8_SnapshotRoundTrip ==
    \A n \in DOMAIN tables :
        LET table == tables[n]
            restored == from_dict(to_dict(table))
        IN  /\ restored.rows = table.rows
            /\ \A where \in WhereDicts :
                  SelectRows(restored.rows, where, 1)
                      = SelectRows(table.rows, where, 1)
            /\ restored.next_id = table.next_id
            /\ \A c \in DOMAIN table.indexes : \A k \in 1..Len(table.rows) :
                  IndexLookup(restored.indexes[c], table.rows[k][c])
                      = IndexLookup(table.indexes[c], table.rows[k][c])

(***************************************************************************)
(* C9: the value an insert stores in an auto-increment column.             *)
(***************************************************************************)
AutoColumns(table) ==
    {table.columns[k].name :
        k \in {j \in 1..Len(table.columns) : table.columns[j].auto_increment}}

\* the non-null values of column col_name among the live rows
LiveValues(table, col_name) ==
    {table.rows[k][col_name].i :
        k \in {j \in 1..Len(table.rows) : table.rows[j][col_name] # None}}

IsMax(m, S) == m \in S /\ \A x \in S : x <= m

\* the value stored by the insert that led from before to after
StoredAuto(after, col_name) == LastRow(after)[col_name]

\* C9 as claimed: an insert stores 1 + the maximum of the column among the
\* live rows (1 when there are none), and after the row holding the
\* current maximum m is deleted, the next insert assigns m again.
C9_OneMoreThanLiveMaximum ==
    /\ [][\A n \in DOMAIN tables :
            (last'.op = "insert" /\ last'.err = NoError /\ last'.name = n)
            => \A c \in AutoColumns(tables[n]) :
                  \E m \in LiveValues(tables[n], c) \cup {0} :
                     /\ m = 0 => LiveValues(tables[n], c) = {}
                     /\ m # 0 => IsMax(m, LiveValues(tables[n], c))
                     /\ StoredAuto(tables'[n], c) = IntV(m + 1)]_vars
    /\ [](\A n \in DOMAIN tables : \A c \in AutoColumns(tables[n]) :
            \A k \in 1..Len(tables[n].rows) :
               LET row == tables[n].rows[k]
                   deleted == TableDelete(tables[n],
                                          << <<"_id", row["_id"]>> >>).table
                   again == TableInsert(deleted, << <<"name", StrV("a")>> >>)
               IN  (row[c] # None
                    /\ IsMax(row[c].i, LiveValues(tables[n], c))
                    /\ again.err = NoError)
                   => StoredAuto(again.table, c) = row[c])

\* C9 as amended: an insert stores v >= 1, above every non-null value of
\* the column among the live rows, and v = 1 or some live row holds v - 1:
\* v is 1 + the maximum of 0 and the live values, whatever the caller gave
\* for the column and whatever next_id is.
C9_OneMoreThanLiveMaximumOrZero ==
    [][\A n \in DOMAIN tables :
         (last'.op = "insert" /\ last'.err = NoError /\ last'.name = n)
         => \A c \in AutoColumns(tables[n]) :
               LET v == StoredAuto(tables'[n], c)
               IN  /\ v.t = "int"
                   /\ v.i >= 1
                   /\ \A x \in LiveValues(tables[n], c) : x < v.i
                   /\ v.i = 1 \/ (v.i - 1) \in LiveValues(tables[n], c)]_vars

\* an insert assigned 2 again, to the row with internal id 3, beside the
\* row holding 1: the row that held 2 was deleted or changed
C9_Witness_ValueAssignedAgain ==
    /\ Returned("insert")
    /\ last.name \in DOMAIN tables
    /\ LET table == tables[last.name]
       IN  /\ "id" \in AutoColumns(table)
           /\ Len(table.rows) = 2
           /\ table.rows[1]["id"] = IntV(1)
           /\ LastRow(table)["id"] = IntV(2)
           /\ LastRow(table)["_id"] = IntV(3)

(***************************************************************************)
(* C10: the order of the checks of Table.insert.                           *)
(***************************************************************************)
\* the value insert resolves for column k of the table
Resolved(table, data, k) ==
    IF table.columns[k].auto_increment
    THEN IntV(get_next_auto_increment(table, table.columns[k].name))
    ELSE DictGet(data, table.columns[k].name)

NullViolation(table, data, k) ==
    /\ Resolved(table, data, k) = None
    /\ ~table.columns[k].nullable
    /\ ~table.columns[k].auto_increment

TypeViolation(table, data, k) ==
    /\ Resolved(table, data, k) # None
    /\ ~validate(Resolved(table, data, k), table.columns[k].data_type)

UniqueViolation(table, data, k) ==
    /\ ~NullViolation(table, data, k)
    /\ ~TypeViolation(table, data, k)
    /\ table.columns[k].name \in DOMAIN table.indexes
    /\ IndexLookup(table.indexes[table.columns[k].name],
                   convert(Resolved(table, data, k),
                           table.columns[k].data_type)) # <<>>

Violates(table, data, k) ==
    \/ NullViolation(table, data, k)
    \/ TypeViolation(table, data, k)
    \/ UniqueViolation(table, data, k)

\* what insert must raise: nothing when no column violates a check, else
\* the error of the first violating column in declaration order, null
\* before type before duplicate
ExpectedError(table, data) ==
    LET bad == {k \in 1..Len(table.columns) : Violates(table, data, k)}
    IN  IF bad = {} THEN NoError
        ELSE LET k == CHOOSE j \in bad : \A h \in bad : j <= h
                 col_name == table.columns[k].name
             IN  IF NullViolation(table, data, k) THEN ErrNull(col_name)
                 ELSE IF TypeViolation(table, data, k) THEN ErrType(col_name)
                 ELSE ErrDuplicate(col_name)

InsertRaisesFirstViolation ==
    \A n \in DOMAIN tables : \A data \in DataDicts :
        TableInsert(tables[n], data).err = ExpectedError(tables[n], data)

NoNullInNonNullable(table) ==
    \A k \in 1..Len(table.rows) : \A j \in 1..Len(table.columns) :
        (~table.columns[j].nullable /\ ~table.columns[j].auto_increment)
            => RowGet(table.rows[k], table.columns[j].name) # None

\* an update that returns leaves no such null where there was none
C11_NoNullInNonNullable ==
    [][\A n \in DOMAIN tables :
         (last'.op = "update" /\ last'.err = NoError /\ last'.name = n
          /\ NoNullInNonNullable(tables[n]))
            => NoNullInNonNullable(tables'[n])]_vars

(***************************************************************************)
(* C12: Table.select with a filter returns, in row-storage order, exactly  *)
(* the live rows for which every pair of where holds by equality; an empty *)
(* where returns all live rows, and a filter no row satisfies returns the  *)
(* empty list.                                                             *)
(***************************************************************************)
\* filters of one and two pairs, on the internal id, on columns and on a
\* key no row has
SelectWheres ==
    WhereDicts
    \cup {<< <<"id", v>> >> : v \in {None, IntV(1), IntV(-1), StrV("1")}}
    \cup {<< <<"name", StrV("1")>> >>, << <<"price", StrV("a")>> >>}
    \cup {<< <<"name", StrV("a")>>, <<"_id", IntV(k)>> >> : k \in 1..MaxNextId}
    \cup {<< <<"_id", IntV(k)>>, <<"name", None>> >> : k \in 1..MaxNextId}

\* the positions of the rows for which every pair of where holds
Hits(rows, where) ==
    {k \in 1..Len(rows) :
        \A j \in 1..Len(where) :
            PyEq(RowGet(rows[k], where[j][1]), where[j][2])}

\* the i-th smallest member of a set of numbers
Nth(S, i) == CHOOSE k \in S : Cardinality({h \in S : h < k}) = i - 1

C12_SelectReturnsMatchingRows ==
    \A n \in DOMAIN tables : \A where \in SelectWheres :
        LET rows == tables[n].rows
            res == TableSelect(tables[n], <<>>, where, <<>>, None)
            hits == Hits(rows, where)
        IN  /\ res.err = NoError
            /\ Len(res.result) = Cardinality(hits)
            /\ \A i \in 1..Len(res.result) :
                  res.result[i].row = rows[Nth(hits, i)]
            /\ where = <<>> => Contents(res.result) = rows
            /\ hits = {} => res.result = <<>>

\* a select returned one row of a table of two
C12_Witness_OneOfTwoRows ==
    /\ Returned("select")
    /\ last.count = 1
    /\ Len(tables[last.name].rows) = 2
    /\ \E where \in SelectWheres :
          /\ Len(where) = 2
          /\ Cardinality(Hits(tables[last.name].rows, where)) = 1

(***************************************************************************)
(* C13: the rows select returns are independent copies.  Every dict of     *)
(* every select result, with or without a projection, is a dict of its     *)
(* own, and a caller's setting or removing a field of a returned row       *)
(* leaves every table (rows, indexes, next_id) and the storage as they     *)
(* were, so that a later select returns what it would have returned.       *)
(***************************************************************************)
C13_SelectedRowsAreCopies ==
    /\ [][last'.op = "change_selected"
            => tables' = tables /\ storage' = storage]_vars
    /\ [](\A n \in DOMAIN tables : \A columns \in ColumnLists :
            \A where \in WhereDicts : \A order_by \in OrderBys :
               \A limit \in Limits :
                  LET res == TableSelect(tables[n], columns, where, order_by,
                                         limit)
                  IN  \A k \in 1..Len(res.result) : res.result[k].ref = 0)

\* the caller changed a row returned by a select of a table that has rows
C13_Witness_ChangedSelectedRow ==
    /\ last.op = "change_selected"
    /\ last.name \in DOMAIN tables
    /\ Len(tables[last.name].rows) >= 1

(***************************************************************************)
(* C14: the row insert returns is a copy of the inserted row: a caller's   *)
(* change of a field of the returned row leaves the rows of every table    *)
(* as they were, and with them what a later select returns and what a      *)
(* later mutating call saves.                                              *)
(***************************************************************************)
C14_InsertedRowIsCopy ==
    [][last'.op = "change_inserted" => tables' = tables]_vars

(***************************************************************************)
(* C15: for every limit n >= 0, n = 0 included, select(limit = n) returns  *)
(* the first min(n, k) rows of the filtered and sorted result of k rows,   *)
(* so never more than n rows.                                              *)
(***************************************************************************)
C15_LimitTruncates ==
    \A t \in DOMAIN tables : \A columns \in ColumnLists :
        \A where \in WhereDicts : \A order_by \in OrderBys :
            \A n \in 0..MaxRows :
                LET full == TableSelect(tables[t], columns, where, order_by,
                                        None)
                    res == TableSelect(tables[t], columns, where, order_by,
                                       IntV(n))
                    k == Len(full.result)
                IN  /\ res.err = full.err
                    /\ Len(res.result) <= n
                    /\ res.result = SubSeq(full.result, 1,
                                           IF n < k THEN n ELSE k)

(***************************************************************************)
(* C16: select with order_by = "-c" returns the filtered rows sorted by    *)
(* column c in non-increasing order, rows of equal c keeping their         *)
(* row-storage order, and a row whose c is absent or null sorts as the     *)
(* minimum instead of making the call fail; order_by = "c" does the same   *)
(* in non-decreasing order.                                                *)
(***************************************************************************)
\* a <= b, null being the minimum
KeyLessEq(a, b) ==
    IF a = None THEN TRUE ELSE IF b = None THEN FALSE ELSE ~PyLess(b, a)

\* the position of the row of the same internal id
PositionIn(result, row) ==
    CHOOSE k \in 1..Len(result) : result[k].row["_id"] = row["_id"]

\* sorted is result in the order of column col_name, stable
SortedStable(sorted, result, col_name, descending) ==
    /\ Len(sorted) = Len(result)
    /\ \A k \in 1..Len(result) : \E h \in 1..Len(sorted) :
          sorted[h] = result[k]
    /\ \A i, j \in 1..Len(sorted) :
          i < j =>
            LET a == RowGet(sorted[i].row, col_name)
                b == RowGet(sorted[j].row, col_name)
            IN  /\ IF descending THEN KeyLessEq(b, a) ELSE KeyLessEq(a, b)
                /\ a = b => PositionIn(result, sorted[i].row)
                                < PositionIn(result, sorted[j].row)

C16_OrderByStableNullMinimum ==
    \A t \in DOMAIN tables : \A where \in WhereDicts :
        \A order_by \in OrderBys \ {<<>>} :
            LET plain == TableSelect(tables[t], <<>>, where, <<>>, None)
                res == TableSelect(tables[t], <<>>, where, order_by, None)
            IN  /\ res.err = NoError
                /\ SortedStable(res.result, plain.result,
                                order_by[Len(order_by)],
                                StartsWithMinus(order_by))

(***************************************************************************)
(* C17: a Table.update(data, where) that returns, returns the number of    *)
(* live rows that matched where before the call; every other row is        *)
(* unchanged, in every matching row each field not named in data keeps     *)
(* its value, and the rows keep their number and order.                    *)
(***************************************************************************)
C17_UpdateCountsAndFrames ==
    \A n \in DOMAIN tables : \A data \in DataDicts : \A where \in WhereDicts :
        LET rows == tables[n].rows
            res == TableUpdate(tables[n], data, where)
            hits == Hits(rows, where)
        IN  res.err = NoError =>
              /\ res.count = Cardinality(hits)
              /\ Len(res.table.rows) = Len(rows)
              /\ \A k \in 1..Len(rows) :
                    /\ res.table.rows[k]["_id"] = rows[k]["_id"]
                    /\ k \notin hits => res.table.rows[k] = rows[k]
                    /\ \A f \in DOMAIN rows[k] :
                          ~DictHas(data, f)
                             => /\ f \in DOMAIN res.table.rows[k]
                                /\ res.table.rows[k][f] = rows[k][f]

\* an update returned 1 and the two rows of the table differ in a field
C17_Witness_OneOfTwoUpdated ==
    /\ Returned("update")
    /\ last.count = 1
    /\ Len(tables[last.name].rows) = 2
    /\ RowGet(tables[last.name].rows[1], "name")
          # RowGet(tables[last.name].rows[2], "name")

(***************************************************************************)
(* C18: Table.delete(where) removes exactly the live rows matching where   *)
(* (all rows when where is empty), returns their number, leaves every      *)
(* surviving row unchanged and in the same relative order, and removes     *)
(* each deleted row's id from the bucket of its value in every index.      *)
(***************************************************************************)
C18_DeleteRemovesMatchingRows ==
    \A n \in DOMAIN tables : \A where \in WhereDicts :
        LET rows == tables[n].rows
            res == TableDelete(tables[n], where)
            hits == Hits(rows, where)
            stay == (1..Len(rows)) \ hits
        IN  /\ res.err = NoError
            /\ res.count = Cardinality(hits)
            /\ Len(res.table.rows) = Cardinality(stay)
            /\ \A i \in 1..Len(res.table.rows) :
                  res.table.rows[i] = rows[Nth(stay, i)]
            /\ where = <<>> => res.table.rows = <<>>
            /\ \A k \in hits : \A c \in DOMAIN tables[n].indexes :
                  c \in DOMAIN rows[k]
                     => rows[k]["_id"].i \notin
                           SeqToSet(IndexLookup(res.table.indexes[c],
                                                rows[k][c]))

\* a delete removed one row of two from a table whose index still holds
\* the other row
C18_Witness_OneOfTwoDeleted ==
    /\ Returned("delete")
    /\ last.count = 1
    /\ Len(tables[last.name].rows) = 1
    /\ \E v \in DOMAIN tables[last.name].indexes["id"] :
          tables[last.name].indexes["id"][v] # <<>>

(***************************************************************************)
(* C19: create_table with a name in the registry always fails, and         *)
(* drop_table, get_table, insert, select, update, delete and join naming   *)
(* a table not in the registry always fail; in each such failure the       *)
(* registry, every table and the storage are unchanged.                    *)
(***************************************************************************)
NamedOps ==
    {"drop_table", "get_table", "insert", "select", "update", "delete", "join"}

\* a call on a name in the way fails and changes nothing
RegistryFailureStep ==
    /\ (last'.op = "create_table" /\ last'.name \in DOMAIN tables)
          => last'.err = ErrExists(last'.name)
    /\ (last'.op \in NamedOps /\ last'.name \notin DOMAIN tables)
          => last'.err = ErrMissing(last'.name)
    /\ last'.err.msg \in {"already exists", "does not exist"}
          => tables' = tables /\ storage' = storage

\* join fails on a missing left or right table, whatever its other
\* arguments are
JoinFailsOnMissing ==
    \A left_table \in JoinNames, right_table \in JoinNames :
        \A on_left \in JoinColumns, on_right \in JoinColumns :
            \A join_type \in JoinTypes :
                LET res == DatabaseJoin(tables, left_table, right_table,
                                        on_left, on_right, join_type)
                IN  IF left_table \notin DOMAIN tables
                    THEN res.err = ErrMissing(left_table)
                    ELSE IF right_table \notin DOMAIN tables
                    THEN res.err = ErrMissing(right_table)
                    ELSE res.err = NoError

C20_SelectAndJoinReadOnly ==
    [][last'.op \in {"select", "join"}
         => tables' = tables /\ storage' = storage]_vars

\* a select returned rows of a table whose stored snapshot is not the
\* table's snapshot
C20_Witness_SelectOverStaleSnapshot ==
    /\ Returned("select")
    /\ last.count >= 1
    /\ load_table(storage, last.name).data # to_dict(tables[last.name])

(***************************************************************************)
(* Database.join over two tables: the registries of a users and a tasks    *)
(* table holding at most MaxRows rows each, and the joins a caller asks    *)
(* of them.                                                                *)
(***************************************************************************)
\* the lists of at most n elements of S
ListsUpTo(S, n) == UNION {[1..m -> S] : m \in 0..n}

\* the table after Table.insert of each dict of datas, in order
RECURSIVE InsertAll(_, _)
InsertAll(table, datas) ==
    IF datas = <<>> THEN table
    ELSE InsertAll(TableInsert(table, Head(datas)).table, Tail(datas))

\* a users table with the column id and a tasks table with the columns
\* user_id and title, after the inserts of at most MaxRows rows each
JoinRegistries ==
    LET UsersColumns ==
            <<Column("id", DataType_INTEGER, TRUE, FALSE, FALSE, FALSE)>>
        TasksColumns ==
            <<Column("user_id", DataType_INTEGER, TRUE, FALSE, FALSE, FALSE),
              Column("title", DataType_TEXT, TRUE, FALSE, FALSE, FALSE)>>
        UsersData == {<< <<"id", IntV(n)>> >> : n \in 1..2}
        TasksData == {<< <<"user_id", IntV(n)>>, <<"title", StrV(t)>> >> :
                         n \in 1..2, t \in {"A", "B"}}
    IN  {[n \in {"users", "tasks"} |->
            IF n = "users" THEN InsertAll(NewTable("users", UsersColumns), us)
            ELSE InsertAll(NewTable("tasks", TasksColumns), ts)] :
          us \in ListsUpTo(UsersData, MaxRows),
          ts \in ListsUpTo(TasksData, MaxRows)}

JoinOn == {"id", "user_id", "_id"}

InitJoin ==
    /\ tables \in JoinRegistries
    /\ storage = [n \in DOMAIN tables |-> json_dump(to_dict(tables[n]))]
    /\ last = Call("init", "", NoError, 0)
    /\ calls = 0
    /\ returned = <<>>

NextJoin ==
    \E left_table \in DOMAIN tables, right_table \in DOMAIN tables,
       on_left \in JoinOn, on_right \in JoinOn, join_type \in JoinTypes :
       Join(left_table, right_table, on_left, on_right, join_type)

SpecJoin == InitJoin /\ [][NextJoin]_vars

\* the pairs <<i, j>> of the i-th left and the j-th right row that are
\* equal on the join columns
MatchingPairs(left, right, on_left, on_right) ==
    {p \in (1..Len(left.rows)) \X (1..Len(right.rows)) :
        PyEq(RowGet(left.rows[p[1]], on_left),
             RowGet(right.rows[p[2]], on_right))}

\* the place of a pair among the pairs P, left row first, then right row
PairRank(P, p) ==
    Cardinality({q \in P : q[1] < p[1] \/ (q[1] = p[1] /\ q[2] <= p[2])})

\* every key of the merged dict m names a table and a field of that table's
\* row and carries that field; every field of both rows has its key
MergesRows(m, left_table, left_row, right_table, right_row) ==
    /\ DOMAIN m = {<<left_table, k>> : k \in DOMAIN left_row}
                      \cup {<<right_table, k>> : k \in DOMAIN right_row}
    /\ \A key \in DOMAIN m :
          \/ key[1] = left_table /\ key[2] \in DOMAIN left_row
                /\ m[key] = left_row[key[2]]
          \/ key[1] = right_table /\ key[2] \in DOMAIN right_row
                /\ m[key] = right_row[key[2]]

(***************************************************************************)
(* C21: for any two tables and join columns, an INNER join returns one     *)
(* merged record for every pair of a left and a right row that are equal   *)
(* on the join columns, ordered by left row and then by right row, and no  *)
(* other record; every key of a merged record is "<table>.<field>" and     *)
(* carries that field of the row of that table.                            *)
(***************************************************************************)
C21_JoinMergesMatchingPairs ==
    \A left_table \in DOMAIN tables, right_table \in DOMAIN tables :
      \A on_left \in JoinOn, on_right \in JoinOn :
        LET left == tables[left_table]
            right == tables[right_table]
            res == DatabaseJoin(tables, left_table, right_table, on_left,
                                on_right, "INNER")
            P == MatchingPairs(left, right, on_left, on_right)
        IN  /\ res.err = NoError
            /\ Len(res.result) = Cardinality(P)
            /\ \A p \in P :
                  MergesRows(res.result[PairRank(P, p)].row,
                             left_table, left.rows[p[1]],
                             right_table, right.rows[p[2]])

\* a join of two users and two tasks has returned the two pairs that match
\* out of the four
C21_Witness_TwoOfFourPairs ==
    /\ Returned("join")
    /\ last.name = "users"
    /\ last.count = 2
    /\ DOMAIN tables = {"users", "tasks"}
    /\ Len(tables["users"].rows) = 2
    /\ Len(tables["tasks"].rows) = 2
    /\ Cardinality(MatchingPairs(tables["users"], tables["tasks"],
                                 "id", "user_id")) = 2
    /\ Len(DatabaseJoin(tables, "users", "tasks", "id", "user_id",
                        "INNER").result) = 2

\* the registry of one user with id 1 and one task of that user titled "A"
OneUserOneTask ==
    /\ DOMAIN tables = {"users", "tasks"}
    /\ Len(tables["users"].rows) = 1
    /\ Len(tables["tasks"].rows) = 1
    /\ tables["users"].rows[1]["id"] = IntV(1)
    /\ tables["tasks"].rows[1]["user_id"] = IntV(1)
    /\ tables["tasks"].rows[1]["title"] = StrV("A")

\* the merged records of join("users", "tasks", "id", "user_id", "INNER")
UsersTasks ==
    Contents(DatabaseJoin(tables, "users", "tasks", "id", "user_id",
                          "INNER").result)

(***************************************************************************)
(* C22, as stated: with one user of id 1 and one task of user_id 1 titled  *)
(* "A", join("users", "tasks", "id", "user_id", "INNER") returns one       *)
(* record whose keys are exactly "users.id", "tasks.user_id" and           *)
(* "tasks.title", with the values 1, 1 and "A".                            *)
(***************************************************************************)
C22_MergedKeysAreColumns ==
    OneUserOneTask =>
        /\ Len(UsersTasks) = 1
        /\ DOMAIN UsersTasks[1] = {<<"users", "id">>, <<"tasks", "user_id">>,
                                   <<"tasks", "title">>}
        /\ UsersTasks[1][<<"users", "id">>] = IntV(1)
        /\ UsersTasks[1][<<"tasks", "user_id">>] = IntV(1)
        /\ UsersTasks[1][<<"tasks", "title">>] = StrV("A")

(***************************************************************************)
(* C22, amended: the one record returned has the three keys above with the *)
(* values 1, 1 and "A", and the keys "users._id" and "tasks._id" with the  *)
(* internal ids of the two rows, and no other key.                         *)
(***************************************************************************)
C22_MergedKeysWithInternalIds ==
    OneUserOneTask =>
        /\ Len(UsersTasks) = 1
        /\ DOMAIN UsersTasks[1] = {<<"users", "id">>, <<"tasks", "user_id">>,
                                   <<"tasks", "title">>, <<"users", "_id">>,
                                   <<"tasks", "_id">>}
        /\ UsersTasks[1][<<"users", "id">>] = IntV(1)
        /\ UsersTasks[1][<<"tasks", "user_id">>] = IntV(1)
        /\ UsersTasks[1][<<"tasks", "title">>] = StrV("A")
        /\ UsersTasks[1][<<"users", "_id">>] = tables["users"].rows[1]["_id"]
        /\ UsersTasks[1][<<"tasks", "_id">>] = tables["tasks"].rows[1]["_id"]

\* that join has returned its one record
C22_Witness_OneUserOneTaskJoined ==
    /\ OneUserOneTask
    /\ Returned("join")
    /\ last.name = "users"
    /\ last.count = 1
    /\ Len(UsersTasks) = 1

(***************************************************************************)
(* The StorageManager on its own: a caller saves, loads and deletes the    *)
(* snapshots of tables under two names.                                    *)
(***************************************************************************)
StorageNames == {"users", "tasks"}

\* the snapshots of a table with a column of each kind, after at most
\* MaxRows inserts of a row of nulls or of a row with every field set
StoredSnapshots ==
    LET columns ==
            <<Column("id", DataType_INTEGER, TRUE, FALSE, FALSE, FALSE),
              Column("name", DataType_TEXT, TRUE, FALSE, FALSE, FALSE),
              Column("price", DataType_FLOAT, TRUE, FALSE, FALSE, FALSE),
              Column("sold", DataType_BOOLEAN, TRUE, FALSE, FALSE, FALSE)>>
        datas == {<<>>,
                  << <<"id", IntV(1)>>, <<"name", StrV("a")>>,
                     <<"price", IntV(2)>>, <<"sold", BoolV(TRUE)>> >>}
    IN  {to_dict(InsertAll(NewTable(n, columns), ds)) :
            n \in StorageNames, ds \in ListsUpTo(datas, MaxRows)}

\* a call of a StorageManager method: the error it raised and what it
\* was given or has returned
StorageCall(op, name, err, data) ==
    [op |-> op, name |-> name, err |-> err, data |-> data]

InitStorage ==
    /\ storage = [n \in {} |-> <<>>]
    /\ tables = [n \in {} |-> <<>>]
    /\ last = StorageCall("init", "", NoError, None)
    /\ calls = 0
    /\ returned = <<>>

StorageSave(table_name, table_data) ==
    /\ storage' = save_table(storage, table_name, table_data)
    /\ last' = StorageCall("save_table", table_name, NoError, table_data)
    /\ UNCHANGED <<tables, calls, returned>>

StorageLoad(table_name) ==
    /\ last' = StorageCall("load_table", table_name,
                           load_table(storage, table_name).err,
                           load_table(storage, table_name).data)
    /\ UNCHANGED <<tables, storage, calls, returned>>

StorageLoadAll ==
    /\ last' = StorageCall("load_all_tables", "", NoError,
                           load_all_tables(storage))
    /\ UNCHANGED <<tables, storage, calls, returned>>

StorageDelete(table_name) ==
    /\ storage' = delete_table(storage, table_name)
    /\ last' = StorageCall("delete_table", table_name, NoError, None)
    /\ UNCHANGED <<tables, calls, returned>>

NextStorage ==
    \/ \E table_name \in StorageNames, table_data \in StoredSnapshots :
          StorageSave(table_name, table_data)
    \/ \E table_name \in StorageNames : StorageLoad(table_name)
    \/ StorageLoadAll
    \/ \E table_name \in StorageNames : StorageDelete(table_name)

SpecStorage == InitStorage /\ [][NextStorage]_vars

\* load_table(n) of the files raises the not-found error
NotStored(files, n) ==
    /\ load_table(files, n).err # NoError
    /\ load_table(files, n).err.exc = "FileNotFoundError"

\* load_table gives for every name but n what it gave before the step
OthersAsBefore(n) ==
    \A m \in StorageNames \ {n} :
        load_table(storage', m) = load_table(storage, m)

(***************************************************************************)
(* C23: the StorageManager keeps at most one record per name.  After       *)
(* save_table(n, d), load_table(n) returns d; after delete_table(n) it     *)
(* fails with the not-found error, as it does for every name before any    *)
(* save; a call changes what load_table gives for no other name, and       *)
(* load_table and load_all_tables change nothing.  load_all_tables returns *)
(* exactly the names for which load_table succeeds, each with the snapshot *)
(* load_table returns.  delete_table of a name without a record raises     *)
(* nothing and changes nothing.                                            *)
(***************************************************************************)
C23_LoadReturnsLastSave ==
    /\ [](last.op = "init" => \A n \in StorageNames : NotStored(storage, n))
    /\ [][
          /\ last'.op = "save_table" =>
                /\ load_table(storage', last'.name).err = NoError
                /\ load_table(storage', last'.name).data = last'.data
                /\ OthersAsBefore(last'.name)
          /\ last'.op = "delete_table" =>
                /\ last'.err = NoError
                /\ NotStored(storage', last'.name)
                /\ OthersAsBefore(last'.name)
                /\ (NotStored(storage, last'.name) => storage' = storage)
          /\ last'.op = "load_table" =>
                /\ storage' = storage
                /\ last'.err = load_table(storage, last'.name).err
                /\ last'.data = load_table(storage, last'.name).data
          /\ last'.op = "load_all_tables" =>
                /\ storage' = storage
                /\ DOMAIN last'.data =
                      {n \in StorageNames :
                          load_table(storage, n).err = NoError}
                /\ \A n \in DOMAIN last'.data :
                      last'.data[n] = load_table(storage, n).data
       ]_vars

\* load_table has returned a snapshot with a row while the other name has
\* no record
C23_Witness_LoadedSavedSnapshot ==
    /\ last.op = "load_table"
    /\ last.err = NoError
    /\ Len(last.data.rows) >= 1
    /\ last.data.rows[1]["sold"] = BoolV(TRUE)
    /\ \E n \in StorageNames : NotStored(storage, n)

(***************************************************************************)
(* Python strings.  A str is a string of the model, read character by      *)
(* character; the whitespace of the model is the space.                    *)
(***************************************************************************)
Char(text, i) == SubSeq(text, i, i)

\* str.upper and str.lower, over the ASCII letters
Cased(text, from, to) ==
    LET Ch(c) == IF \E k \in 1..Len(from) : Char(from, k) = c
                 THEN Char(to, CHOOSE k \in 1..Len(from) : Char(from, k) = c)
                 ELSE c
        RECURSIVE Go(_, _)
        Go(lo, hi) == IF lo > hi THEN ""
                      ELSE IF lo = hi THEN Ch(Char(text, lo))
                      ELSE Go(lo, (lo + hi) \div 2)
                              \o Go(((lo + hi) \div 2) + 1, hi)
    IN  Go(1, Len(text))
Upper(text) ==
    Cased(text, "abcdefghijklmnopqrstuvwxyz", "ABCDEFGHIJKLMNOPQRSTUVWXYZ")
Lower(text) ==
    Cased(text, "ABCDEFGHIJKLMNOPQRSTUVWXYZ", "abcdefghijklmnopqrstuvwxyz")

\* str.strip
Strip(text) ==
    LET kept == {i \in 1..Len(text) : Char(text, i) # " "}
    IN  IF kept = {} THEN ""
        ELSE SubSeq(text, CHOOSE i \in kept : \A j \in kept : i <= j,
                          CHOOSE i \in kept : \A j \in kept : j <= i)

\* sub in text
Contains(text, sub) ==
    \E i \in 1..(Len(text) - Len(sub) + 1) :
        SubSeq(text, i, i + Len(sub) - 1) = sub

\* the pieces of text between the positions of cuts, in order
Pieces(text, cuts) ==
    LET Cut(k) == IF k = 0 THEN 0
                  ELSE IF k > Cardinality(cuts) THEN Len(text) + 1
                  ELSE CHOOSE p \in cuts :
                          Cardinality({q \in cuts : q <= p}) = k
    IN  [k \in 1..(Cardinality(cuts) + 1) |->
            SubSeq(text, Cut(k - 1) + 1, Cut(k) - 1)]

\* text.split(sep), for a separator of one character
Split(text, sep) == Pieces(text, {i \in 1..Len(text) : Char(text, i) = sep})

\* int(text) and float(text) of a text of a sign, digits and a point (no
\* exponent, no underscore, no inf or nan): whether it parses, and its
\* value.  A float is written as its whole part and the digits after the
\* point that are left when the trailing zeros are dropped.
Number(text) ==
    LET signed == Len(text) >= 1 /\ Char(text, 1) \in {"-", "+"}
        body == IF signed THEN SubSeq(text, 2, Len(text)) ELSE text
        point == IF Contains(body, ".")
                 THEN CHOOSE i \in 1..Len(body) :
                         /\ Char(body, i) = "."
                         /\ \A j \in 1..(i - 1) : Char(body, j) # "."
                 ELSE Len(body) + 1
        whole == SubSeq(body, 1, point - 1)
        frac == SubSeq(body, point + 1, Len(body))
        Digits(d) == \A i \in 1..Len(d) : Contains("0123456789", Char(d, i))
        DigitValue(c) == (CHOOSE k \in 1..10 : Char("0123456789", k) = c) - 1
        RECURSIVE Value(_)
        Value(d) == IF d = "" THEN 0
                    ELSE 10 * Value(SubSeq(d, 1, Len(d) - 1))
                            + DigitValue(Char(d, Len(d)))
        RECURSIVE Trimmed(_)
        Trimmed(d) == IF d # "" /\ Char(d, Len(d)) = "0"
                      THEN Trimmed(SubSeq(d, 1, Len(d) - 1)) ELSE d
        sign == IF signed /\ Char(text, 1) = "-" THEN "-" ELSE ""
        negate == IF sign = "-" THEN -1 ELSE 1
    IN  [is_int |-> whole # "" /\ Digits(whole) /\ point > Len(body),
         is_float |-> Digits(whole) /\ Digits(frac) /\ whole \o frac # "",
         int |-> IF Digits(whole) THEN IntV(negate * Value(whole)) ELSE None,
         float |-> IF Digits(whole)
                   THEN [t |-> "float", i |-> negate * Value(whole),
                         s |-> IF Trimmed(frac) = "" THEN ""
                               ELSE sign \o "." \o Trimmed(frac)]
                   ELSE None]

(***************************************************************************)
(* SQLParser                                                               *)
(***************************************************************************)
\* a conversion that looks for null and the booleans before the quotes
ConvertValueQuotesLast(val) ==
    LET v == Strip(val)
        bare == IF Len(v) >= 1 /\ Char(v, 1) = "'" /\ Char(v, Len(v)) = "'"
                THEN SubSeq(v, 2, Len(v) - 1) ELSE v
    IN  IF Lower(bare) = "null" THEN None
        ELSE IF Lower(bare) \in {"true", "false"}
        THEN BoolV(Lower(bare) = "true")
        ELSE IF bare # v THEN StrV(bare)
        ELSE IF Contains(v, ".")
        THEN IF Number(v).is_float THEN Number(v).float ELSE StrV(v)
        ELSE IF Number(v).is_int THEN Number(v).int ELSE StrV(v)

\* SQLParser._convert_value
convert_value(val) ==
    LET v == Strip(val)
    IN  IF Len(v) >= 1 /\ Char(v, 1) = "'" /\ Char(v, Len(v)) = "'"
        THEN StrV(SubSeq(v, 2, Len(v) - 1))
        ELSE IF Lower(v) = "null" THEN None
        ELSE IF Lower(v) \in {"true", "false"} THEN BoolV(Lower(v) = "true")
        ELSE IF Contains(v, ".")
        THEN IF Number(v).is_float THEN Number(v).float ELSE StrV(v)
        ELSE IF Number(v).is_int THEN Number(v).int ELSE StrV(v)

\* text.split(): the words between blanks
Words(text) == SelectSeq(Split(text, " "), LAMBDA w : w # "")

\* SQLParser._parse_columns: the Columns of the definitions between the
\* commas outside parentheses; a definition of fewer than two words is
\* skipped
parse_columns(cols_str) ==
    LET text == cols_str \o ","
        Count(c, i) == Cardinality({j \in 1..(i - 1) : Char(text, j) = c})
        commas == {i \in 1..Len(text) :
                      /\ Char(text, i) = ","
                      /\ Count("(", i) = Count(")", i)}
        Defs == [k \in 1..Cardinality(commas) |->
                    Strip(Pieces(text, commas)[k])]
        col_defs == SelectSeq(Defs, LAMBDA d : Len(Words(d)) >= 2)
        Col(col_def) ==
            LET parts == Words(col_def)
                col_def_upper == Upper(col_def)
                not_null == Contains(col_def_upper, "NOT")
                               /\ Contains(col_def_upper, "NULL")
            IN  Column(parts[1], parts[2], ~not_null,
                       Contains(col_def_upper, "PRIMARY")
                          /\ Contains(col_def_upper, "KEY"),
                       Contains(col_def_upper, "UNIQUE"),
                       Contains(col_def_upper, "AUTO_INCREMENT"))
    IN  [k \in 1..Len(col_defs) |-> Col(col_defs[k])]

\* An element of a regular expression: a literal matched in any letter
\* case ("lit"), a run of blanks ("s+", "s*"), of word characters ("w+"),
\* of word characters and minus signs ("ord+"), of digits ("d+") or of any
\* characters (".*", ".+", and the lazy ".*?"), an optional group ("opt")
\* or the end of the text ("end"); g names the group that captures it.
Re(k, x, g) == [k |-> k, x |-> x, g |-> g]

\* re.match of the elements of pattern at position i of text, IGNORECASE:
\* whether they match, where the match ends and the groups it captured.
\* A run is as long as the rest of the pattern allows (as short, if lazy).
RECURSIVE re_match(_, _, _, _)
re_match(text, pattern, i, groups) ==
    LET e == Head(pattern)
        rest == Tail(pattern)
        fail == [ok |-> FALSE, end |-> i, groups |-> groups]
        InClass(c) ==
            CASE e.k \in {"s+", "s*"} -> c = " "
              [] e.k = "w+" -> Contains("abcdefghijklmnopqrstuvwxyz_0123456789",
                                        Lower(c))
              [] e.k = "ord+" ->
                    Contains("abcdefghijklmnopqrstuvwxyz_0123456789-", Lower(c))
              [] e.k = "d+" -> Contains("0123456789", c)
              [] OTHER -> TRUE
        run == IF e.k \in {".*", ".+", ".*?"} THEN Len(text) - i + 1
               ELSE CHOOSE n \in 0..(Len(text) - i + 1) :
                       /\ \A j \in i..(i + n - 1) : InClass(Char(text, j))
                       /\ i + n <= Len(text) => ~InClass(Char(text, i + n))
        least == IF e.k \in {"s*", ".*", ".*?"} THEN 0 ELSE 1
        lazy == e.k = ".*?"
        After(n) ==
            re_match(text, rest, i + n,
                     IF e.g = "" THEN groups
                     ELSE (e.g :> SubSeq(text, i, i + n - 1)) @@ groups)
        \* the lengths are tried in the order of preference, the longest
        \* first unless the element is lazy, until the rest matches
        RECURSIVE Try(_)
        Try(n) ==
            IF n < least \/ n > run THEN fail
            ELSE LET found == After(n)
                 IN  IF found.ok THEN found
                     ELSE Try(IF lazy THEN n + 1 ELSE n - 1)
        grouped == re_match(text, e.x \o rest, i, groups)
    IN  IF pattern = <<>> THEN [ok |-> TRUE, end |-> i, groups |-> groups]
        ELSE IF e.k = "lit"
        THEN IF /\ i + Len(e.x) - 1 <= Len(text)
                /\ Upper(SubSeq(text, i, i + Len(e.x) - 1)) = Upper(e.x)
             THEN re_match(text, rest, i + Len(e.x), groups) ELSE fail
        ELSE IF e.k = "end"
        THEN IF i = Len(text) + 1 THEN re_match(text, rest, i, groups)
             ELSE fail
        ELSE IF e.k = "opt"
        THEN IF grouped.ok THEN grouped ELSE re_match(text, rest, i, groups)
        ELSE Try(IF lazy THEN least ELSE run)

\* re.split(pattern, text): the pieces of text between the matches of
\* pattern, found from left to right
RECURSIVE re_split(_, _, _)
re_split(text, pattern, from) ==
    LET starts == {p \in from..Len(text) : re_match(text, pattern, p, <<>>).ok}
        p == CHOOSE q \in starts : \A r \in starts : q <= r
    IN  IF starts = {} THEN <<SubSeq(text, from, Len(text))>>
        ELSE <<SubSeq(text, from, p - 1)>>
                 \o re_split(text, pattern,
                             re_match(text, pattern, p, <<>>).end)

\* dict(items): a key keeps the place of its first item and has the value
\* of its last
dict_of(items) ==
    LET firsts == SelectSeq([k \in 1..Len(items) |-> k],
                            LAMBDA k : \A j \in 1..(k - 1) :
                                          items[j][1] # items[k][1])
        LastValue(key) ==
            items[CHOOSE k \in 1..Len(items) :
                     /\ items[k][1] = key
                     /\ \A j \in (k + 1)..Len(items) : items[j][1] # key][2]
    IN  [n \in 1..Len(firsts) |->
            <<items[firsts[n]][1], LastValue(items[firsts[n]][1])>>]

\* the loop of _parse_where and _parse_set: col = value of every part
\* that matches (\w+)\s*=\s*(.+), as a dict
Assignments(parts) ==
    LET Assign(part) ==
            re_match(Strip(part),
                     <<Re("w+", "", "col"), Re("s*", "", ""), Re("lit", "=", ""),
                       Re("s*", "", ""), Re(".+", "", "val")>>, 1, <<>>)
        matching == SelectSeq(parts, LAMBDA part : Assign(part).ok)
    IN  dict_of([k \in 1..Len(matching) |->
                    <<Assign(matching[k]).groups["col"],
                      convert_value(Assign(matching[k]).groups["val"])>>])

\* SQLParser._parse_where
parse_where(where_str) ==
    IF where_str = "" THEN <<>>
    ELSE Assignments(re_split(where_str,
                              <<Re("s+", "", ""), Re("lit", "AND", ""),
                                Re("s+", "", "")>>, 1))

\* SQLParser._parse_set
parse_set(set_str) == Assignments(Split(set_str, ","))

\* SQLParser._parse_values: the values between the commas outside quoted
\* literals; a quote after a backslash does not open or close a literal
parse_values(values_str) ==
    LET Toggles(j) == /\ Char(values_str, j) = "'"
                      /\ j > 1 => Char(values_str, j - 1) # "\\"
        InString(i) == Cardinality({j \in 1..(i - 1) : Toggles(j)}) % 2 = 1
        commas == {i \in 1..Len(values_str) :
                      Char(values_str, i) = "," /\ ~InString(i)}
        parts == Pieces(values_str, commas)
        kept == IF parts[Len(parts)] = "" THEN SubSeq(parts, 1, Len(parts) - 1)
                ELSE parts
    IN  [k \in 1..Len(kept) |-> convert_value(Strip(kept[k]))]

ErrParse(sql) ==
    [exc |-> "ValueError", msg |-> "Unable to parse SQL", col |-> sql]

\* a parse that goes by the first word of the text alone
ParseByVerb(sql) ==
    LET first == IF Words(sql) = <<>> THEN "" ELSE Upper(Words(sql)[1])
    IN  IF first \in {"CREATE", "DROP", "INSERT", "SELECT", "UPDATE", "DELETE"}
        THEN [err |-> NoError, result |-> [type |-> first]]
        ELSE [err |-> ErrParse(sql), result |-> None]

\* SQLParser.parse: the error raised (NoError when it returns) and the
\* command returned, its type together with its parameters
parse(sql) ==
    LET stripped == Strip(sql)
        kept == {i \in 1..Len(stripped) : Char(stripped, i) # ";"}
        text == IF kept = {} THEN ""
                ELSE SubSeq(stripped, 1,
                            CHOOSE i \in kept : \A j \in kept : j <= i)
        S == Re("s+", "", "")
        O == Re("s*", "", "")
        K(x) == Re("lit", x, "")
        create_match ==
            re_match(text, <<K("CREATE"), S, K("TABLE"), S,
                             Re("w+", "", "table"), O, K("("),
                             Re(".*", "", "cols"), K(")")>>, 1, <<>>)
        drop_match ==
            re_match(text, <<K("DROP"), S, K("TABLE"), S,
                             Re("w+", "", "table")>>, 1, <<>>)
        insert_match ==
            re_match(text, <<K("INSERT"), S, K("INTO"), S,
                             Re("w+", "", "table"), O, K("("),
                             Re(".*?", "", "columns"), K(")"), O, K("VALUES"),
                             O, K("("), Re(".*?", "", "values"), K(")")>>,
                     1, <<>>)
        select_match ==
            re_match(text, <<K("SELECT"), S, Re(".*?", "", "cols"), S,
                             K("FROM"), S, Re("w+", "", "table"),
                             Re("opt", <<S, K("WHERE"), S,
                                         Re(".*?", "", "where")>>, ""),
                             Re("opt", <<S, K("ORDER"), S, K("BY"), S,
                                         Re("ord+", "", "order_by")>>, ""),
                             Re("opt", <<S, K("LIMIT"), S,
                                         Re("d+", "", "limit")>>, ""),
                             Re("end", "", "")>>, 1, <<>>)
        update_match ==
            re_match(text, <<K("UPDATE"), S, Re("w+", "", "table"), S,
                             K("SET"), S, Re(".*?", "", "set"), S, K("WHERE"),
                             S, Re(".*", "", "where")>>, 1, <<>>)
        delete_match ==
            re_match(text, <<K("DELETE"), S, K("FROM"), S,
                             Re("w+", "", "table"), S, K("WHERE"), S,
                             Re(".*", "", "where")>>, 1, <<>>)
        Stripped(list) == [k \in 1..Len(list) |-> Strip(list[k])]
        Zip(keys, values) ==
            [k \in 1..(IF Len(keys) < Len(values) THEN Len(keys)
                       ELSE Len(values)) |-> <<keys[k], values[k]>>]
        Group(m, g) == IF g \in DOMAIN m.groups THEN m.groups[g] ELSE ""
        Command(params) == [err |-> NoError, result |-> params]
    IN  IF create_match.ok
        THEN Command([type |-> "CREATE", table |-> create_match.groups["table"],
                      columns |-> parse_columns(create_match.groups["cols"])])
        ELSE IF drop_match.ok
        THEN Command([type |-> "DROP", table |-> drop_match.groups["table"]])
        ELSE IF insert_match.ok
        THEN Command([type |-> "INSERT",
                      table |-> insert_match.groups["table"],
                      data |-> dict_of(Zip(
                          Stripped(Split(insert_match.groups["columns"], ",")),
                          parse_values(insert_match.groups["values"])))])
        ELSE IF select_match.ok
        THEN Command([type |-> "SELECT",
                      table |-> select_match.groups["table"],
                      columns |->
                          IF Strip(select_match.groups["cols"]) = "*"
                          THEN None
                          ELSE Stripped(Split(Strip(select_match.groups["cols"]),
                                              ",")),
                      where |-> IF Group(select_match, "where") = ""
                                THEN None
                                ELSE parse_where(select_match.groups["where"]),
                      order_by |->
                          IF "order_by" \in DOMAIN select_match.groups
                          THEN StrV(select_match.groups["order_by"]) ELSE None,
                      limit |->
                          IF "limit" \in DOMAIN select_match.groups
                          THEN Number(select_match.groups["limit"]).int
                          ELSE None])
        ELSE IF update_match.ok
        THEN Command([type |-> "UPDATE",
                      table |-> update_match.groups["table"],
                      data |-> parse_set(update_match.groups["set"]),
                      where |-> parse_where(update_match.groups["where"])])
        ELSE IF delete_match.ok
        THEN Command([type |-> "DELETE",
                      table |-> delete_match.groups["table"],
                      where |-> parse_where(delete_match.groups["where"])])
        ELSE [err |-> ErrParse(text), result |-> None]

(***************************************************************************)
(* The parser on its own: a caller hands texts to the static methods of    *)
(* SQLParser, or a value and a type to those of DataType.  The methods     *)
(* keep nothing between two calls; a behaviour is one call.                *)
(***************************************************************************)
\* longest literal token made of the characters below
MaxToken == 3

\* the texts of at most n of the characters of chars
RECURSIVE Texts(_, _)
Texts(chars, n) ==
    IF n = 0 THEN {""}
    ELSE {w \o c : w \in Texts(chars, n - 1), c \in chars \cup {""}}

\* the literal tokens: a quote, a digit, the point, a sign and a letter in
\* every order, and the literals of the six kinds
Tokens ==
    Texts({"'", "1", ".", "-", "a"}, MaxToken)
    \cup {"null", "NULL", "'null'", "true", "False", "'true'", "1.0.0",
          "'1'", "10.50", " 1 "}

\* a call of a method of SQLParser: its text, the error it raised and
\* what it returned
ParserCall(op, text, err, result) ==
    [op |-> op, text |-> text, err |-> err, result |-> result]

InitParser ==
    /\ storage = [n \in {} |-> <<>>]
    /\ tables = [n \in {} |-> <<>>]
    /\ last = ParserCall("init", "", NoError, None)
    /\ calls = 0
    /\ returned = <<>>

ConvertValue(val) ==
    /\ last.op = "init"
    /\ last' = ParserCall("_convert_value", val, NoError, convert_value(val))
    /\ UNCHANGED <<tables, storage, calls, returned>>

\* the column definitions of a CREATE TABLE, and the lists of one or two
ColumnDefs ==
    {"id INTEGER PRIMARY KEY AUTO_INCREMENT", "name TEXT NOT NULL",
     "code text unique", "price DECIMAL(10,2)", "unique_code TEXT",
     "notes TEXT NULL", "x"}
ColumnLines ==
    ColumnDefs \cup {d \o ", " \o e : d \in ColumnDefs, e \in ColumnDefs}

ParseColumns(cols_str) ==
    /\ last.op = "init"
    /\ last' = ParserCall("_parse_columns", cols_str, NoError,
                          parse_columns(cols_str))
    /\ UNCHANGED <<tables, storage, calls, returned>>

\* the texts of quoted literals, and the clauses of one such literal,
\* alone or followed by a number: the values of VALUES, the assignments of
\* SET and the conditions of WHERE
LiteralTexts == {"x", "a,b", "a AND b"}
Clauses(first, more) ==
    {first \o "'" \o c \o "'" : c \in LiteralTexts}
    \cup {first \o "'" \o c \o "'" \o more : c \in LiteralTexts}

ParseValues(values_str) ==
    /\ last.op = "init"
    /\ last' = ParserCall("_parse_values", values_str, NoError,
                          parse_values(values_str))
    /\ UNCHANGED <<tables, storage, calls, returned>>

ParseWhere(where_str) ==
    /\ last.op = "init"
    /\ last' = ParserCall("_parse_where", where_str, NoError,
                          parse_where(where_str))
    /\ UNCHANGED <<tables, storage, calls, returned>>

ParseSet(set_str) ==
    /\ last.op = "init"
    /\ last' = ParserCall("_parse_set", set_str, NoError, parse_set(set_str))
    /\ UNCHANGED <<tables, storage, calls, returned>>

\* the texts of the six commands by the type parse is to return for them,
\* and texts that are none of the six; text after a CREATE, DROP or INSERT
\* is not looked at by re.match
SqlCommands ==
    [CREATE |-> {"CREATE TABLE t (id INTEGER PRIMARY KEY, name TEXT)",
                 "CREATE TABLE t(id INTEGER)"},
     DROP |-> {"DROP TABLE t", "DROP  TABLE  t", "DROP TABLE t garbage"},
     INSERT |-> {"INSERT INTO t (id, name) VALUES (1, 'x')",
                 "INSERT INTO t(id)VALUES(1)"},
     SELECT |-> {"SELECT * FROM t", "SELECT id, name FROM t",
                 "SELECT * FROM t WHERE id = 1", "SELECT * FROM t ORDER BY id",
                 "SELECT * FROM t LIMIT 1",
                 "SELECT id FROM t WHERE id = 1 ORDER BY id LIMIT 2"},
     UPDATE |-> {"UPDATE t SET name = 'x' WHERE id = 1",
                 "UPDATE t SET name = 'x', id = 2 WHERE id = 1 AND name = 'y'"},
     DELETE |-> {"DELETE FROM t WHERE id = 1",
                 "DELETE FROM t WHERE id = 1 AND name = 'x'"}]
Unrecognized ==
    {"UPDATE t SET name = 'x'", "DELETE FROM t", "UPDATE t SET name = 'x' WHERE",
     "DELETE FROM t WHERE", "CREATE TABLE t", "DROP t", "DROP TABLE",
     "INSERT INTO t VALUES (1)", "SELECT * FROM t junk", "SELECT * FROM",
     "SELECT id", "TRUNCATE TABLE t", "SHOW TABLES", "foo", ""}

\* a text as it may be written: in the letter case given, in small or in
\* capital letters
Cases(body) == {body, Lower(body), Upper(body)}
\* ... after a blank or not, and closed by a semicolon or not
Written(body) ==
    {lead \o body \o close : lead \in {"", " "}, close \in {"", ";"}}
SqlTexts ==
    UNION {Written(c) : c \in UNION {Cases(body) :
              body \in Unrecognized
                          \cup UNION {SqlCommands[type] :
                                         type \in DOMAIN SqlCommands}}}

Parse(sql) ==
    /\ last.op = "init"
    /\ last' = ParserCall("parse", sql, parse(sql).err, parse(sql).result)
    /\ UNCHANGED <<tables, storage, calls, returned>>

\* the values handed to DataType: None, the booleans, integers and whole
\* floats around 0 and 1, and strings, the words true and false in several
\* letter cases among them
TypedValues ==
    {None, BoolV(TRUE), BoolV(FALSE)}
    \cup {IntV(n) : n \in -1..2} \cup {FloatV(n) : n \in -1..2}
    \cup {StrV(x) : x \in {"true", "false", "True", "False", "TRUE", "FALSE",
                           "tRuE", "falsE", "1", "0", "2", "-1", "yes", "no",
                           "t", "f", "x", "", "truee", "on"}}
DataTypes ==
    {DataType_INTEGER, DataType_TEXT, DataType_FLOAT, DataType_BOOLEAN}

Validate(value, data_type) ==
    /\ last.op = "init"
    /\ last' = [op |-> "validate", value |-> value, data_type |-> data_type,
                result |-> validate(value, data_type)]
    /\ UNCHANGED <<tables, storage, calls, returned>>

\* convert is called on a value that validate has accepted, as Table.insert
\* and Table.update call it
Convert(value, data_type) ==
    /\ last.op = "init"
    /\ validate(value, data_type)
    /\ last' = [op |-> "convert", value |-> value, data_type |-> data_type,
                result |-> convert(value, data_type)]
    /\ UNCHANGED <<tables, storage, calls, returned>>

NextParser ==
    \/ \E value \in TypedValues, data_type \in DataTypes :
          Validate(value, data_type)
    \/ \E value \in TypedValues, data_type \in DataTypes :
          Convert(value, data_type)
    \/ \E sql \in SqlTexts : Parse(sql)
    \/ \E val \in Tokens : ConvertValue(val)
    \/ \E cols_str \in ColumnLines : ParseColumns(cols_str)
    \/ \E values_str \in Clauses("", ", 2") : ParseValues(values_str)
    \/ \E where_str \in Clauses("name = ", " AND id = 2") :
          ParseWhere(where_str)
    \/ \E set_str \in Clauses("name = ", ", id = 2") : ParseSet(set_str)

SpecParser == InitParser /\ [][NextParser]_vars

\* the token starts and ends with a single quote
Quoted(v) == Len(v) >= 1 /\ Char(v, 1) = "'" /\ Char(v, Len(v)) = "'"

(***************************************************************************)
(* C24: the literal conversion of a token, after its surrounding blanks    *)
(* are dropped, is decided by the first case that applies: a token that    *)
(* starts and ends with a single quote becomes the text between the        *)
(* quotes; null in any letter case becomes None; true or false in any      *)
(* letter case becomes the boolean; a token with a decimal point that      *)
(* parses as a float becomes that float; a token that parses as an integer *)
(* becomes that integer; any other token is kept as text.  So 1.0.0,       *)
(* '1' and 'null' become the texts "1.0.0", "1" and "null".                *)
(***************************************************************************)
C24_LiteralPrecedence ==
    last.op = "_convert_value" =>
        LET v == Strip(last.text)
            keyword == Lower(v) \in {"null", "true", "false"}
            float == Contains(v, ".") /\ Number(v).is_float
        IN  /\ Quoted(v) => last.result = StrV(SubSeq(v, 2, Len(v) - 1))
            /\ ~Quoted(v) /\ Lower(v) = "null" => last.result = None
            /\ ~Quoted(v) /\ Lower(v) = "true" => last.result = BoolV(TRUE)
            /\ ~Quoted(v) /\ Lower(v) = "false" => last.result = BoolV(FALSE)
            /\ ~Quoted(v) /\ ~keyword /\ float
                  => last.result = Number(v).float
            /\ ~Quoted(v) /\ ~keyword /\ ~float /\ Number(v).is_int
                  => last.result = Number(v).int
            /\ ~Quoted(v) /\ ~keyword /\ ~float /\ ~Number(v).is_int
                  => last.result = StrV(v)
            /\ last.text = "1.0.0" => last.result = StrV("1.0.0")
            /\ last.text = "'1'" => last.result = StrV("1")
            /\ last.text = "'null'" => last.result = StrV("null")

\* the quoted null has been converted to the text null
C24_Witness_QuotedNullIsText ==
    /\ last.op = "_convert_value"
    /\ last.text = "'null'"
    /\ last.result = StrV("null")

\* the text of a column definition after its name and its type
AfterNameAndType(col_def) ==
    LET RECURSIVE Glue(_)
        Glue(parts) == IF parts = <<>> THEN ""
                       ELSE " " \o Head(parts) \o Glue(Tail(parts))
    IN  Upper(Glue(SubSeq(Words(col_def), 3, Len(Words(col_def)))))

\* the Column a definition declares when its flags are looked for in the
\* text after the name and the type; none for a definition of one word
Declared(col_def) ==
    IF Len(Words(col_def)) < 2 THEN <<>>
    ELSE LET rest == AfterNameAndType(col_def)
         IN  <<Column(Words(col_def)[1], Words(col_def)[2],
                      ~(Contains(rest, "NOT") /\ Contains(rest, "NULL")),
                      Contains(rest, "PRIMARY") /\ Contains(rest, "KEY"),
                      Contains(rest, "UNIQUE"),
                      Contains(rest, "AUTO_INCREMENT"))>>

(***************************************************************************)
(* C25: each column of a CREATE TABLE has its primary_key, unique,         *)
(* not-null and auto_increment flags set exactly when PRIMARY and KEY,     *)
(* UNIQUE, NOT and NULL, or AUTO_INCREMENT occur, in any letter case, in   *)
(* the text after the column's name and type: unique_code TEXT is not      *)
(* unique and notes TEXT NULL is nullable.                                 *)
(***************************************************************************)
C25_FlagsFromRemainingText ==
    last.op = "_parse_columns" =>
        /\ \A d \in ColumnDefs :
              last.text = d => last.result = Declared(d)
        /\ \A d \in ColumnDefs, e \in ColumnDefs :
              last.text = d \o ", " \o e
                 => last.result = Declared(d) \o Declared(e)

(***************************************************************************)
(* C26: the clauses of VALUES, SET and WHERE are split outside quoted      *)
(* literals only.  A quoted literal, with a comma in it in a VALUES or a   *)
(* SET clause or with AND between blanks in it in a WHERE clause, reaches  *)
(* the values, the data or the where mapping as one text with its full     *)
(* content, whether it is alone or followed by a second value, assignment  *)
(* or condition.                                                           *)
(***************************************************************************)
C26_QuotedLiteralsStayWhole ==
    \A c \in LiteralTexts :
        /\ last.op = "_parse_values" =>
              /\ last.text = "'" \o c \o "'" => last.result = <<StrV(c)>>
              /\ last.text = "'" \o c \o "', 2"
                    => last.result = <<StrV(c), IntV(2)>>
        /\ last.op = "_parse_set" =>
              /\ last.text = "name = '" \o c \o "'"
                    => last.result = << <<"name", StrV(c)>> >>
              /\ last.text = "name = '" \o c \o "', id = 2"
                    => last.result = << <<"name", StrV(c)>>,
                                        <<"id", IntV(2)>> >>
        /\ last.op = "_parse_where" =>
              /\ last.text = "name = '" \o c \o "'"
                    => last.result = << <<"name", StrV(c)>> >>
              /\ last.text = "name = '" \o c \o "' AND id = 2"
                    => last.result = << <<"name", StrV(c)>>,
                                        <<"id", IntV(2)>> >>

(***************************************************************************)
(* C27: parse returns a command, of the type of that shape, for the texts  *)
(* of the six shapes CREATE TABLE, DROP TABLE, INSERT INTO .. VALUES,       *)
(* SELECT .. FROM, UPDATE .. SET .. WHERE and DELETE FROM .. WHERE, their   *)
(* keywords in any letter case; for any other text, an UPDATE or a DELETE  *)
(* without WHERE among them, it raises the error "Unable to parse SQL"     *)
(* (a ValueError) that carries the text without its surrounding blanks and *)
(* closing semicolon, and returns no command.                              *)
(***************************************************************************)
C27_ParseRecognizesSixShapes ==
    last.op = "parse" =>
        /\ \A type \in DOMAIN SqlCommands : \A body \in SqlCommands[type] :
              \A c \in Cases(body) :
                 last.text \in Written(c) =>
                    last.err = NoError /\ last.result.type = type
        /\ \A body \in Unrecognized : \A c \in Cases(body) :
              last.text \in Written(c) =>
                 /\ last.err = [exc |-> "ValueError",
                                msg |-> "Unable to parse SQL", col |-> c]
                 /\ last.result = None
        /\ last.err = NoError => last.result.type \in DOMAIN SqlCommands
        /\ last.err # NoError => last.result = None

\* an UPDATE without WHERE, in small letters and closed by a semicolon, was
\* refused with the error that carries it
C27_Witness_UpdateWithoutWhereRefused ==
    /\ last.op = "parse"
    /\ last.text = " update t set name = 'x';"
    /\ last.err.exc = "ValueError"
    /\ last.err.col = "update t set name = 'x'"
    /\ last.result = None

\* the encodings of a boolean: a boolean, the numbers 0 and 1, and the
\* words true and false in any letter case; and those that stand for true
BooleanEncoding(value) ==
    \/ value.t = "bool"
    \/ IsNumber(value) /\ value.i \in {0, 1}
    \/ value.t = "str" /\ Lower(value.s) \in {"true", "false"}
TrueEncoding(value) ==
    \/ IsNumber(value) /\ value.i = 1
    \/ value.t = "str" /\ Lower(value.s) = "true"

(***************************************************************************)
(* C28: DataType.validate accepts for BOOLEAN exactly a boolean, 0, 1 and  *)
(* the words true and false in any letter case (True and FALSE among       *)
(* them), and DataType.convert of an accepted value is True for the        *)
(* encodings of true and False for those of false.                         *)
(***************************************************************************)
C28_BooleanAcceptsAnyLetterCase ==
    /\ last.op = "validate" /\ last.data_type = DataType_BOOLEAN
                            /\ last.value # None
          => (last.result <=> BooleanEncoding(last.value))
    /\ last.op = "convert" /\ last.data_type = DataType_BOOLEAN
                           /\ last.value # None
          => last.result = BoolV(TrueEncoding(last.value))

\* the canonical form of a type: what DataType.convert returns for it
Canonical(value, data_type) ==
    CASE data_type = DataType_INTEGER -> value.t = "int"
      [] data_type = DataType_TEXT -> value.t = "str"
      [] data_type = DataType_FLOAT -> value.t = "float"
      [] data_type = DataType_BOOLEAN -> value.t = "bool"
      [] OTHER -> FALSE

(***************************************************************************)
(* C29: in every state reached by create, insert, update, delete, save and *)
(* restart, every field of every live row that is not None is in the       *)
(* canonical form of its column's type: a value that fails validation is   *)
(* never stored, and a value that passes is stored converted.              *)
(***************************************************************************)
C29_FieldsAreCanonical ==
    \A n \in DOMAIN tables :
       \A k \in 1..Len(tables[n].rows) :
          \A c \in 1..Len(tables[n].columns) :
             LET col == tables[n].columns[c]
                 row == tables[n].rows[k]
             IN  col.name \in DOMAIN row /\ row[col.name] # None
                    => Canonical(row[col.name], col.data_type)

\* a row holds the integer 1 in an id column that is not auto-increment,
\* where only the string "1" can have put it, and the last insert or update
\* was refused for a value of the wrong type
C29_Witness_ConvertedStoredAndInvalidRefused ==
    /\ last.op \in {"insert", "update"}
    /\ last.err.msg = "Invalid type for column"
    /\ \E n \in DOMAIN tables :
          /\ ~tables[n].columns[1].auto_increment
          /\ \E k \in 1..Len(tables[n].rows) :
                /\ "id" \in DOMAIN tables[n].rows[k]
                /\ tables[n].rows[k]["id"] = IntV(1)

\* the table has exactly one live row that holds value in the column
OnlyHolder(table, col_name, value) ==
    Cardinality(LiveIds(table, col_name, value)) = 1

\* an insert that supplies value for the column, and a name, is not refused
\* as a duplicate
Insertable(table, col_name, value) ==
    \A given \in {value} \cup {StrV("1") : x \in {value} \cap {IntV(1)}} :
       TableInsert(table, << <<col_name, given>>, <<"name", StrV("a")>> >>).err.msg
          # "Duplicate value for unique column"

(***************************************************************************)
(* C30: a value freed from a primary-key or unique column can be inserted  *)
(* again.  When a delete or an update returns and the one live row that    *)
(* held value v in such a column holds it no longer, and no other row      *)
(* does, an insert that supplies v for the column is not refused as a      *)
(* duplicate.                                                              *)
(***************************************************************************)
C30_FreedValueInsertable ==
    [][\A n \in DOMAIN tables \cap DOMAIN tables' :
          (last'.op \in {"delete", "update"} /\ last'.name = n
              /\ last'.err = NoError
              /\ tables'[n].columns = tables[n].columns)
          => \A col_name \in IndexedColumns(tables[n].columns) :
                \A v \in ValueUniverse :
                   (OnlyHolder(tables[n], col_name, v)
                       /\ LiveIds(tables'[n], col_name, v) = {})
                   => Insertable(tables'[n], col_name, v)]_vars

\* a delete has returned and left an id index with a value that no row
\* holds any more: its list of row ids is empty
C30_Witness_DeletedValueFreed ==
    /\ Returned("delete")
    /\ last.count = 1
    /\ \E n \in DOMAIN tables :
          /\ tables[n].rows = <<>>
          /\ "id" \in DOMAIN tables[n].indexes
          /\ \E v \in DOMAIN tables[n].indexes["id"] :
                tables[n].indexes["id"][v] = <<>>

(***************************************************************************)
(* Two threads in Table.insert: the request handlers of app.py share one   *)
(* Database, and nothing keeps two calls of Table.insert on one table      *)
(* apart.  A call is taken in the steps of its code: it reads next_id and  *)
(* the rows for the auto-increment value, checks the values and looks      *)
(* them up in the indexes, adds the row to the indexes, appends the row,   *)
(* increments next_id.  returned holds the frame of each thread: where it  *)
(* is (pc), its data, the row it builds, the rows it has read, and whether *)
(* the other thread was outside Table.insert during the whole call so far  *)
(* (alone); calls counts the calls begun.                                  *)
(***************************************************************************)
InitThreads ==
    /\ storage = [n \in {} |-> <<>>]
    /\ \E columns \in Schemas :
          tables = [n \in TableNames |-> NewTable(n, columns)]
    /\ last = [op |-> "init", thread |-> 0, err |-> NoError]
    /\ calls = 0
    /\ returned = [t \in 1..2 |->
                      [pc |-> "idle", data |-> <<>>, row |-> <<>>,
                       rows |-> <<>>, alone |-> TRUE]]

\* thread t has taken the step op and is now at pc with the frame given
Stepped(t, op, err, frame) ==
    /\ last' = [op |-> op, thread |-> t, err |-> err]
    /\ returned' = [u \in 1..2 |->
                       IF u = t THEN frame
                       ELSE IF op = "read" /\ returned[u].pc # "idle"
                       THEN [returned[u] EXCEPT !.alone = FALSE]
                       ELSE returned[u]]

\* row = {'_id': self.next_id}, and the rows _get_next_auto_increment reads
InsertRead(t, name, data) ==
    /\ returned[t].pc = "idle"
    /\ Counted
    /\ Stepped(t, "read", NoError,
               [pc |-> "read", data |-> data,
                row |-> [x \in {"_id"} |-> IntV(tables[name].next_id)],
                rows |-> tables[name].rows,
                alone |-> \A u \in 1..2 : u = t \/ returned[u].pc = "idle"])
    /\ UNCHANGED <<tables, storage>>

\* a variant that does not look the values up in the indexes
InsertCheckWithoutLookup(t, name) ==
    /\ returned[t].pc = "read"
    /\ LET built == InsertColumns([tables[name] EXCEPT
                                      !.rows = returned[t].rows,
                                      !.indexes = [c \in {} |-> EmptyIndex]],
                                  returned[t].data, 1, returned[t].row)
       IN  Stepped(t, "check", built.err,
                   [returned[t] EXCEPT
                       !.pc = IF built.err = NoError THEN "checked" ELSE "idle",
                       !.row = built.row])
    /\ UNCHANGED <<tables, storage, calls>>

\* the loop over the columns: the null, type and unique checks, the last
\* against the indexes as they are now; an error ends the call
InsertCheck(t, name) ==
    /\ returned[t].pc = "read"
    /\ LET built == InsertColumns([tables[name] EXCEPT
                                      !.rows = returned[t].rows],
                                  returned[t].data, 1, returned[t].row)
       IN  Stepped(t, "check", built.err,
                   [returned[t] EXCEPT
                       !.pc = IF built.err = NoError THEN "checked" ELSE "idle",
                       !.row = built.row])
    /\ UNCHANGED <<tables, storage, calls>>

\* index.add(row[col_name], self.next_id) for every index
InsertIndex(t, name) ==
    /\ returned[t].pc = "checked"
    /\ tables' = [tables EXCEPT ![name].indexes =
                     IndexesAfterInsert(tables[name], returned[t].row)]
    /\ Stepped(t, "index", NoError, [returned[t] EXCEPT !.pc = "indexed"])
    /\ UNCHANGED <<storage, calls>>

\* self.rows.append(row)
InsertAppend(t, name) ==
    /\ returned[t].pc = "indexed"
    /\ tables' = [tables EXCEPT ![name].rows = Append(@, returned[t].row)]
    /\ Stepped(t, "append", NoError, [returned[t] EXCEPT !.pc = "appended"])
    /\ UNCHANGED <<storage, calls>>

\* self.next_id += 1, and the call returns
InsertIncrement(t, name) ==
    /\ returned[t].pc = "appended"
    /\ tables' = [tables EXCEPT ![name].next_id =
                     NextIdAfterInsert(tables[name])]
    /\ Stepped(t, "increment", NoError, [returned[t] EXCEPT !.pc = "idle"])
    /\ UNCHANGED <<storage, calls>>

NextThreads ==
    \E t \in 1..2, name \in TableNames :
       \/ \E id \in {IntV(1), IntV(2)} :
             InsertRead(t, name, << <<"id", id>>, <<"name", StrV("a")>> >>)
       \/ InsertCheck(t, name)
       \/ InsertIndex(t, name)
       \/ InsertAppend(t, name)
       \/ InsertIncrement(t, name)

SpecThreads == InitThreads /\ [][NextThreads]_vars

\* two live rows of the table share their internal id
SharedId(table) ==
    \E j \in 1..Len(table.rows) : \E k \in (j + 1)..Len(table.rows) :
       table.rows[j]["_id"] = table.rows[k]["_id"]
\* two live rows of the table share their value in a primary-key or unique
\* column
SharedKey(table) ==
    \E j \in 1..Len(table.rows) : \E k \in (j + 1)..Len(table.rows) :
       \E c \in IndexedColumns(table.columns) :
          table.rows[j][c] = table.rows[k][c]

(***************************************************************************)
(* C31: nothing keeps two calls of Table.insert apart.  Interleaved at the *)
(* steps of the call they reach a table in which two live rows share an    *)
(* internal id or a value of a primary-key or unique column (the witness); *)
(* the interleaving is what it takes: a call during which the other thread *)
(* is never inside Table.insert appends no row that shares its id or such  *)
(* a value with another, when none did before.                             *)
(***************************************************************************)
C31_OnlyInterleavedInsertsShare ==
    [][\A t \in 1..2 : \A n \in DOMAIN tables :
          (/\ returned[t].pc = "indexed" /\ returned'[t].pc = "appended"
           /\ returned[t].alone
           /\ ~SharedId(tables[n]) /\ ~SharedKey(tables[n]))
          => ~SharedId(tables'[n]) /\ ~SharedKey(tables'[n])]_vars

\* both threads have returned from their first call, and the two rows of
\* the table share their internal id and their primary-key value
C31_Witness_TwoRowsShareIdAndKey ==
    /\ \A t \in 1..2 : returned[t].pc = "idle"
    /\ \E n \in DOMAIN tables :
          /\ Len(tables[n].rows) = 2
          /\ tables[n].columns[1].primary_key
          /\ tables[n].rows[1]["_id"] = tables[n].rows[2]["_id"]
          /\ tables[n].rows[1]["id"] = tables[n].rows[2]["id"]

\* the internal ids of a list of rows grow from each row to the next
IdsIncrease(rows) ==
    \A k \in 1..(Len(rows) - 1) : rows[k]["_id"].i < rows[k + 1]["_id"].i

(***************************************************************************)
(* C32: in every state reached by create, drop, insert, update, delete,    *)
(* save and restart the rows of every table are in strictly increasing     *)
(* order of                                                                *)
(* their internal ids, so that no two live rows share an id, and a select  *)
(* without order_by returns its rows in that order, the order of their     *)
(* insertion.                                                              *)
(***************************************************************************)
C32_RowsInIdOrder ==
    [](\A n \in DOMAIN tables :
          /\ IdsIncrease(tables[n].rows)
          /\ \A where \in WhereDicts :
                IdsIncrease(Contents(
                    TableSelect(tables[n], <<>>, where, <<>>, None).result)))

\* an insert has returned and the table holds the rows 1 and 3: row 2 was
\* deleted before
C32_Witness_InsertAfterDelete ==
    /\ Returned("insert")
    /\ Len(tables[last.name].rows) = 2
    /\ tables[last.name].rows[1]["_id"] = IntV(1)
    /\ tables[last.name].rows[2]["_id"] = IntV(3)

\* the table has a primary-key or unique column, and each of them is an
\* auto-increment INTEGER column
KeysAutoIncrement(columns) ==
    /\ IndexedColumns(columns) # {}
    /\ \A k \in 1..Len(columns) :
          (columns[k].primary_key \/ columns[k].unique)
             => /\ columns[k].auto_increment
                /\ columns[k].data_type = DataType_INTEGER

(***************************************************************************)
(* C33: in a table whose primary-key and unique columns are all            *)
(* auto-increment INTEGER columns, no insert fails with the duplicate      *)
(* error, whatever inserts, updates and deletes, successful or failed,     *)
(* came before: neither the insert that was made last nor any that can be  *)
(* made in the state reached.                                              *)
(***************************************************************************)
C33_AutoIncrementNeverDuplicate ==
    [](\A n \in DOMAIN tables :
          KeysAutoIncrement(tables[n].columns)
          => /\ (last.op = "insert" /\ last.name = n)
                   => last.err.msg # "Duplicate value for unique column"
             /\ \A data \in DataDicts :
                   TableInsert(tables[n], data).err.msg
                      # "Duplicate value for unique column")

\* an insert has returned with the auto-increment value 2 for the row with
\* internal id 3: the row that held 2 before was deleted
C33_Witness_ValueGivenAgain ==
    /\ Returned("insert")
    /\ KeysAutoIncrement(tables[last.name].columns)
    /\ Len(tables[last.name].rows) = 2
    /\ LastRow(tables[last.name])["_id"] = IntV(3)
    /\ LastRow(tables[last.name])["id"] = IntV(2)

\* the data of an update with keys that are no columns: "_id" and "ghost",
\* alone, together, and beside a column with a valid or an invalid value
UpdateDatas ==
    {<< <<"_id", IntV(2)>> >>, << <<"_id", None>> >>,
     << <<"ghost", StrV("a")>> >>,
     << <<"_id", IntV(2)>>, <<"ghost", StrV("a")>> >>,
     << <<"_id", IntV(2)>>, <<"name", StrV("1")>> >>,
     << <<"name", StrV("1")>>, <<"ghost", IntV(-1)>> >>,
     << <<"ghost", StrV("a")>>, <<"name", IntV(-1)>> >>}

\* the items of data whose key is a column
ColumnItems(columns, data) ==
    SelectSeq(data, LAMBDA item : item[1] \in ColumnNames(columns))

(***************************************************************************)
(* C34: Table.update leaves the internal id of every row as it is and adds *)
(* no field that is not a declared column.  The keys of data that are no   *)
(* column names, "_id" among them, are ignored: the update does what it    *)
(* does without them, raises no error for them, and with no other key it   *)
(* leaves the rows as they are and still counts every matching row.        *)
(* This holds of an update made in any state reached.                      *)
(***************************************************************************)
C34_UpdateIgnoresUnknownKeys ==
    [](\A n \in DOMAIN tables : \A data \in UpdateDatas :
            \A where \in WhereDicts :
               LET table == tables[n]
                   res == TableUpdate(table, data, where)
                   known == ColumnItems(table.columns, data)
               IN  /\ Len(res.table.rows) = Len(table.rows)
                   /\ \A k \in 1..Len(table.rows) :
                         /\ res.table.rows[k]["_id"] = table.rows[k]["_id"]
                         /\ DOMAIN res.table.rows[k]
                               \subseteq DOMAIN table.rows[k]
                                            \cup ColumnNames(table.columns)
                   /\ res = TableUpdate(table, known, where)
                   /\ known = <<>>
                         => /\ res.err = NoError
                            /\ res.count = Cardinality(Hits(table.rows, where))
                            /\ res.table.rows = table.rows)

\* an update has returned with one row of two updated, and an update of
\* that row with the keys "_id" and "ghost" counts it and leaves the rows
\* as they are
C34_Witness_UnknownKeysCounted ==
    /\ Returned("update")
    /\ last.count = 1
    /\ Len(tables[last.name].rows) = 2
    /\ LET res == TableUpdate(tables[last.name],
                              << <<"_id", IntV(2)>>, <<"ghost", StrV("a")>> >>,
                              << <<"_id", IntV(1)>> >>)
       IN  /\ res.err = NoError
           /\ res.count = 1
           /\ res.table.rows = tables[last.name].rows

====
